---- MODULE Spec2Model ----
(***************************************************************************)
(* Model of the pre-call request pipeline of the complexity router         *)
(* (src/litellm-proxy/complexity_router.py).                               *)
(*                                                                         *)
(* Text is a sequence of words; each word stands for itself and is joined  *)
(* to its neighbours by one space.  "s contains p" is: the words of p      *)
(* occur contiguously in s.  Character lengths come from the CharLen       *)
(* table, so that len(), [:n] and the token estimate are computed.         *)
(* Time (now) is in seconds.                                               *)
(***************************************************************************)
EXTENDS Integers, Sequences, FiniteSets, TLC

VARIABLES
    now,                                      \* datetime.utcnow() / time.time(), seconds
    COMPLEXITY_OVERRIDE_DEFAULT_TTL_MINUTES,  \* env LITELLM_OVERRIDE_DEFAULT_TTL
    COMPLEXITY_OVERRIDE_MAX_TTL_MINUTES,      \* env LITELLM_OVERRIDE_MAX_TTL
    CLAUDE_METADATA,                          \* env CLAUDE_METADATA: {found, repo, repo_root}
    _complexity_override_cache,               \* session_id -> override entry
    _session_repo_cache,                      \* session_id -> {repo, repo_root, expires}
    _session_repo_history,                    \* session_id -> {repo, repo_root}
    session_files,                            \* SESSION_FILE_DIR: safe_id -> file
    disk_fault,                               \* the disk step that fails now (None: none)
    _repo_registry,                           \* RepoRegistry._repos
    policy_cache,                             \* get_policy_contract._cache
    self_contract,                            \* ComplexityRouter._contract
    _cache,                                   \* ClassificationCache.cache
    side_cache,                               \* DualCache entries router_metadata:<key>
    req,                                      \* per in-flight request: the hook's frame
    served,                                   \* number of requests accepted so far
    pf_in,                                    \* input of the function under test
    pf_out                                    \* its result

vars == <<now, COMPLEXITY_OVERRIDE_DEFAULT_TTL_MINUTES, COMPLEXITY_OVERRIDE_MAX_TTL_MINUTES,
          CLAUDE_METADATA, disk_fault,
          _complexity_override_cache, _session_repo_cache, _session_repo_history,
          session_files, _repo_registry, policy_cache, self_contract, _cache,
          side_cache, req, served, pf_in, pf_out>>

(***************************************************************************)
(* Python values                                                           *)
(***************************************************************************)
\* None, or a key that is absent from a dict
None == "None"

\* an absent number (a metadata key that was never written)
NoNum == 0 - 1

\* the smaller of two integers: min(a, b)
Min(a, b) == IF a <= b THEN a ELSE b

\* the larger of two integers: max(a, b)
Max(a, b) == IF a >= b THEN a ELSE b

\* a value Python treats as false: None or the empty string
Falsy(x) == x = None \/ x = ""

\* math.ceil(a / b) for a >= 0, b > 0
CeilDiv(a, b) == (a + b - 1) \div b

\* a local variable: F applied to the value of v, which is computed once
With(v, F(_)) == CHOOSE out \in {F(x) : x \in {v}} : TRUE

(***************************************************************************)
(* Text                                                                    *)
(***************************************************************************)
\* str.lower() on one word
LowerWord(w) ==
    CASE w = "README.md" -> "readme.md"
      [] w = "AGENTS.md" -> "agents.md"
      [] w = "Create" -> "create"
      [] w = "USE" -> "use"
      [] w = "Opus" -> "opus"
      [] w = "CANCEL" -> "cancel"
      [] w = "Hello!" -> "hello!"
      [] OTHER -> w

\* str.lower()
Lower(text) == [i \in DOMAIN text |-> LowerWord(text[i])]

\* number of characters of one word
CharLen(w) ==
    CASE w \in {"a", "m", "0", "1", "2", "3", "4", "5", "6", "7", "8", "9"} -> 1
      [] w \in {"an", "in", "to", "ok"} -> 2
      [] w \in {"use", "USE", "set", "for", "the", "new", "adr", "add", "min", "doc", ".md", "md"} -> 3
      [] w \in {"opus", "Opus", "next", "stop", "file", "docs", "this", "plan", "mins", "90"} -> 4
      [] w \in {"haiku", "force", "clear", "reset", "model", "write", "docs/", "/docs", "under"} -> 5
      [] w \in {"sonnet", "switch", "during", "cancel", "CANCEL", "remove", "create", "Create",
                "please", "review", "Hello!", "minute"} -> 6
      [] w \in {"disable", "routing", "design/", "minutes", "section"} -> 7
      [] w \in {"override", "generate", "markdown"} -> 8
      [] w \in {"README.md", "readme.md", "AGENTS.md", "agents.md", "design.md", "carefully"} -> 9
      [] w \in {"complexity"} -> 10
      [] w \in {"docs/design/"} -> 12
      [] w \in {"architecture/", "documentation"} -> 13
      [] w \in {"documentation/"} -> 14
      [] w \in {"architecture.md", "LITELLM_CONTEXT"} -> 15
      [] w = "[[Duplicate context removed at proxy; reference earlier block]]" -> 63
      [] w = "[[Block suppressed: N tokens exceeded 12000. Please summarize upstream.]]" -> 78
      [] w \in {"<!--"} -> 4
      [] w \in {"-->"} -> 3
      [] w \in {"repo=acme", "repo=beta"} -> 9
      [] w \in {"repo_root=/tmp/acme", "repo_root=/tmp/beta"} -> 19
      [] w = "<4000 characters of file A>" -> 4000
      [] w = "<60000 characters of file B>" -> 60000
      [] w = "<47960 characters of a file>" -> 47960
      [] w = "abcdefghijklmnopqrs" -> 19
      [] w = "abcdefghijklmnopqrst" -> 20
      [] w = "<3193 characters of a file>" -> 3193
      [] w = "<3197 characters of a file>" -> 3197
      [] w = "<3201 characters of a file>" -> 3201
      [] w = "<46692 characters of a file>" -> 46692
      [] w = "<46696 characters of a file>" -> 46696
      [] w = "<46732 characters of a file>" -> 46732
      [] w = "<46736 characters of a file>" -> 46736

RECURSIVE SumLen(_)
\* characters of the words of a text, spaces not counted
SumLen(text) == IF text = <<>> THEN 0 ELSE CharLen(Head(text)) + SumLen(Tail(text))

\* len(text): the words and the single spaces between them
TextLen(text) == IF text = <<>> THEN 0 ELSE SumLen(text) + Len(text) - 1

\* pattern in text (substring test, at word granularity)
Contains(text, pattern) ==
    \E i \in 1..(Len(text) - Len(pattern) + 1) :
        \A j \in 1..Len(pattern) : text[i + j - 1] = pattern[j]

\* word in text
HasWord(text, w) == \E i \in DOMAIN text : text[i] = w

(***************************************************************************)
(* Policy enforcer: violation detector and enforcement message            *)
(***************************************************************************)
\* violation_patterns: (pattern, reason) in list order
violation_patterns ==
    << [pattern |-> <<"create", "a", "new", "markdown">>, reason |-> <<"create", "new", "markdown">>],
       [pattern |-> <<"create", "a", "new", ".md">>, reason |-> <<"create", "new", ".md">>],
       [pattern |-> <<"create", "a", "new", "md", "file">>, reason |-> <<"create", "new", "md", "file">>],
       [pattern |-> <<"create", "new", "documentation", "file">>, reason |-> <<"create", "new", "documentation", "file">>],
       [pattern |-> <<"create", "a", "documentation", "file">>, reason |-> <<"create", "a", "documentation", "file">>],
       [pattern |-> <<"write", "docs", "in", "docs/">>, reason |-> <<"write", "docs", "in", "docs/">>],
       [pattern |-> <<"write", "documentation", "in", "docs/">>, reason |-> <<"write", "documentation", "in", "docs/">>],
       [pattern |-> <<"generate", "docs", "in">>, reason |-> <<"generate", "docs", "in">>],
       [pattern |-> <<"create", "docs/">>, reason |-> <<"create", "docs/">>],
       [pattern |-> <<"generate", "an", "adr">>, reason |-> <<"generate", "an", "adr">>],
       [pattern |-> <<"create", "design.md">>, reason |-> <<"create", "design.md">>],
       [pattern |-> <<"create", "architecture.md">>, reason |-> <<"create", "architecture.md">>],
       [pattern |-> <<"add", "documentation", "under", "/docs">>, reason |-> <<"add", "documentation", "under", "/docs">>],
       [pattern |-> <<"create", "a", "new", "doc">>, reason |-> <<"create", "a", "new", "doc">>],
       [pattern |-> <<"write", "a", "new", "doc">>, reason |-> <<"write", "a", "new", "doc">>],
       [pattern |-> <<"generate", "a", "new", "doc">>, reason |-> <<"generate", "a", "new", "doc">>],
       [pattern |-> <<"create", "documentation", "in">>, reason |-> <<"create", "documentation", "in">>],
       [pattern |-> <<"write", "documentation", "to">>, reason |-> <<"write", "documentation", "to">>],
       [pattern |-> <<"generate", "documentation", "file">>, reason |-> <<"generate", "documentation", "file">>],
       [pattern |-> <<"create", ".md", "file">>, reason |-> <<"create", ".md", "file">>],
       [pattern |-> <<"new", "markdown", "file">>, reason |-> <<"new", "markdown", "file">>],
       [pattern |-> <<"new", "documentation", "file">>, reason |-> <<"new", "documentation", "file">>] >>

\* folder_patterns, in list order; a path below a folder contains the folder
folder_patterns == <<"docs/", "architecture/", "design/", "documentation/">>

\* folder in message_lower, for one word of the message
InFolder(w, folder) == w = folder \/ (w = "docs/design/" /\ folder \in {"docs/", "design/"})

\* create_indicators
create_indicators == {"create", "write", "generate", "add", "new"}

\* a mutant of MentionsAllowedFile: the mention is looked up in the message as typed
MentionsAllowedFileCaseSensitive(user_message) ==
    HasWord(user_message, "readme.md") \/ HasWord(user_message, "agents.md")

\* "readme.md" in message_lower or "agents.md" in message_lower
MentionsAllowedFile(user_message) ==
    HasWord(Lower(user_message), "readme.md") \/ HasWord(Lower(user_message), "agents.md")

\* detect_policy_violation: <<>> for None, else the words of the reason
detect_policy_violation(user_message) ==
    LET message_lower == Lower(user_message)
        hits == {i \in DOMAIN violation_patterns :
                    /\ Contains(message_lower, violation_patterns[i].pattern)
                    /\ ~MentionsAllowedFile(user_message)}
        folders == {k \in DOMAIN folder_patterns :
                    /\ \E i \in DOMAIN message_lower : InFolder(message_lower[i], folder_patterns[k])
                    /\ \E ind \in create_indicators : HasWord(message_lower, ind)
                    /\ ~MentionsAllowedFile(user_message)}
    IN  IF user_message = <<>> THEN <<>>
        ELSE IF hits # {}
        THEN <<"Request", "explicitly", "asks", "to">>
                 \o violation_patterns[CHOOSE i \in hits : \A j \in hits : i <= j].reason
        ELSE IF folders # {}
        THEN <<"Request", "asks", "to", "create", "documentation", "in",
               folder_patterns[CHOOSE k \in folders : \A j \in folders : k <= j]>>
        ELSE <<>>

\* contract hash of the README.md / AGENTS.md found under a repo root:
\* sha256(contract_text)[:16], one value per distinct pair of file contents
ContractHashOf(repo_root) ==
    CASE repo_root = "/tmp/acme" -> "c0ffee0000000001"
      [] repo_root = "/tmp/beta" -> "c0ffee0000000002"
      [] OTHER -> "c0ffee0000000000"

\* load_policy_contract: the contract object, reduced to its hash
load_policy_contract(repo_root) ==
    IF repo_root = None THEN "" ELSE ContractHashOf(repo_root)

\* generate_enforcement_system_message: the preamble, the hash, the rules, the hash again
generate_enforcement_system_message(contract_hash) ==
    <<"ENFORCEMENT_PREAMBLE", contract_hash, "NON_NEGOTIABLE_RULES", contract_hash, "ENFORCED">>

(***************************************************************************)
(* Python dicts: a function whose domain is the set of keys present        *)
(***************************************************************************)
\* d[k] = v
DictSet(d, k, v) == [x \in (DOMAIN d) \cup {k} |-> IF x = k THEN v ELSE d[x]]

\* d.pop(k, None)
DictPop(d, k) == [x \in (DOMAIN d) \ {k} |-> d[x]]

\* the empty dict
EmptyDict == [x \in {} |-> None]

(***************************************************************************)
(* Complexity override: command parser and override store                  *)
(***************************************************************************)
\* the decimal numerals the model reads, by value: NumberWords[n + 1] is str(n)
NumberWords == <<"0", "1", "2", "3", "4", "5", "6", "7", "8", "9">>

\* \d+ matches the word
IsNumber(w) == \E i \in DOMAIN NumberWords : NumberWords[i] = w

\* int(duration_str)
IntOf(w) == (CHOOSE i \in DOMAIN NumberWords : NumberWords[i] = w) - 1

\* _MODEL_NAME_TO_COMPLEXITY
_MODEL_NAME_TO_COMPLEXITY(model_name) ==
    CASE model_name = "opus" -> "COMPLEX"
      [] model_name = "sonnet" -> "MODERATE"
      [] model_name = "haiku" -> "SIMPLE"

\* word i of a text, "" past its end
WordAt(text, i) == IF i \in DOMAIN text THEN text[i] ELSE ""

\* _CANCEL_OVERRIDE_PATTERN.search(message): verb, optional "the", optional "model", target
_CANCEL_OVERRIDE_PATTERN(message) ==
    LET m == Lower(message)
        target(i) == WordAt(m, i) \in {"override", "routing", "complexity"}
    IN  \E i \in DOMAIN m :
            /\ m[i] \in {"cancel", "clear", "stop", "remove", "disable", "reset"}
            /\ \/ target(i + 1)
               \/ WordAt(m, i + 1) = "the" /\ target(i + 2)
               \/ WordAt(m, i + 1) = "model" /\ target(i + 2)
               \/ WordAt(m, i + 1) = "the" /\ WordAt(m, i + 2) = "model" /\ target(i + 3)

\* the position of the model name if the action verb of _OVERRIDE_PATTERN starts at word i, else 0
OverrideModelPos(m, i) ==
    LET p == IF m[i] \in {"use", "force", "set"} THEN i + 1
             ELSE IF m[i] = "switch" /\ WordAt(m, i + 1) = "to" THEN i + 2
             ELSE 0
    IN  IF p # 0 /\ WordAt(m, p) \in {"opus", "sonnet", "haiku"} THEN p ELSE 0

\* the number (group 2) of the optional duration clause that follows the model name at p, else ""
OverrideDuration(m, p) ==
    LET q == IF WordAt(m, p + 2) = "the" /\ WordAt(m, p + 3) = "next" THEN p + 4 ELSE p + 2
    IN  IF /\ WordAt(m, p + 1) \in {"for", "during"}
           /\ IsNumber(WordAt(m, q))
           /\ WordAt(m, q + 1) \in {"min", "mins", "minute", "minutes", "m"}
        THEN WordAt(m, q) ELSE ""

\* ttl_minutes of a set command (lines 439-443)
OverrideTtl(duration_str, default_ttl, max_ttl) ==
    IF duration_str # "" THEN Min(IntOf(duration_str), max_ttl) ELSE default_ttl

\* _parse_override_command: kind "none" (None), "cancel" or "set"
_parse_override_command(message, default_ttl, max_ttl) ==
    LET m == Lower(message)
        starts == {i \in DOMAIN m : OverrideModelPos(m, i) # 0}
        first == CHOOSE i \in starts : \A j \in starts : i <= j
        p == OverrideModelPos(m, first)
        nothing == [kind |-> "none", model |-> None, complexity |-> None, ttl_minutes |-> 0]
    IN  IF message = <<>> THEN nothing
        ELSE IF _CANCEL_OVERRIDE_PATTERN(message) THEN [nothing EXCEPT !.kind = "cancel"]
        ELSE IF starts = {} THEN nothing
        ELSE [kind |-> "set", model |-> m[p], complexity |-> _MODEL_NAME_TO_COMPLEXITY(m[p]),
              ttl_minutes |-> OverrideTtl(OverrideDuration(m, p), default_ttl, max_ttl)]

\* a mutant of _cleanup_expired_overrides: an entry that expires at this very moment is purged too
CleanupExpiredOverridesInclusive(cache, t) ==
    [s \in {x \in DOMAIN cache : cache[x].expires > t} |-> cache[s]]

\* _cleanup_expired_overrides at time t
_cleanup_expired_overrides(cache, t) ==
    [s \in {x \in DOMAIN cache : ~(cache[x].expires < t)} |-> cache[s]]

\* a mutant of _set_complexity_override: the entry is stored with the cheap tier
SetOverrideForgetsTier(cache, session_id, complexity, ttl_minutes, t0, t1) ==
    IF session_id = None THEN cache
    ELSE DictSet(cache, session_id,
                 [complexity |-> "SIMPLE", expires |-> t0 + ttl_minutes * 60,
                  created |-> t1, ttl_minutes |-> ttl_minutes])

\* _set_complexity_override: expires is computed at t0; created and the cleanup read the clock at t1
_set_complexity_override(cache, session_id, complexity, ttl_minutes, t0, t1) ==
    IF session_id = None THEN cache
    ELSE _cleanup_expired_overrides(
             DictSet(cache, session_id,
                     [complexity |-> complexity, expires |-> t0 + ttl_minutes * 60,
                      created |-> t1, ttl_minutes |-> ttl_minutes]),
             t1)

\* a mutant of _get_complexity_override: the expiry is not looked at
GetOverrideIgnoresExpiry(cache, session_id, t) ==
    IF session_id = None \/ session_id \notin DOMAIN cache
    THEN [ret |-> None, cache |-> cache]
    ELSE [ret |-> cache[session_id].complexity, cache |-> cache]

\* _get_complexity_override at time t: the returned complexity (None if none) and the store after
_get_complexity_override(cache, session_id, t) ==
    IF session_id = None \/ session_id \notin DOMAIN cache
    THEN [ret |-> None, cache |-> cache]
    ELSE IF cache[session_id].expires < t
    THEN [ret |-> None, cache |-> DictPop(cache, session_id)]
    ELSE [ret |-> cache[session_id].complexity, cache |-> cache]

\* a mutant of _cancel_complexity_override: the entry is left in the store
CancelKeepsEntry(cache, session_id) == cache

\* _cancel_complexity_override: the store after
_cancel_complexity_override(cache, session_id) ==
    IF session_id = None THEN cache ELSE DictPop(cache, session_id)

\* _get_override_remaining_seconds at time t: 0 stands for None
_get_override_remaining_seconds(cache, session_id, t) ==
    IF session_id = None \/ session_id \notin DOMAIN cache THEN 0
    ELSE IF cache[session_id].expires - t > 0 THEN cache[session_id].expires - t ELSE 0

(***************************************************************************)
(* Session store (memory, history, disk) and session id                    *)
(***************************************************************************)
\* SESSION_CACHE_TTL_SECONDS (env LITELLM_REPO_SESSION_TTL, default)
SESSION_CACHE_TTL_SECONDS == 7200

\* SESSION_FILE_TTL_SECONDS (env LITELLM_SESSION_TTL, default)
SESSION_FILE_TTL_SECONDS == 10800

\* _extract_session_id: user_id is <<prefix, "account__session_", suffix>>, or has no infix
_extract_session_id(user_id) ==
    LET at == {i \in DOMAIN user_id : user_id[i] = "account__session_"}
        first == CHOOSE i \in at : \A j \in at : i <= j
    IN  IF at = {} THEN None
        ELSE IF first = Len(user_id) THEN None
        ELSE user_id[first + 1]

\* re.sub(r"[^a-zA-Z0-9_.-]", "", session_id)
Sanitize(session_id) ==
    CASE session_id = "s/1" -> "s1"
      [] session_id = "//" -> ""
      [] OTHER -> session_id

\* A session store is the memory cache, the history, the directory of session files, the
\* disk step that fails while the hook runs (fault: "mkdir", "exists", "read", "write", or
\* None) and whether an OSError has left the function that was working on it (raised).

\* _write_session_file at time t: the store after.  mkdir (line 355) is outside the try,
\* opening and writing the file (lines 362-366) are inside it
_write_session_file(store, session_id, repo, repo_root, t) ==
    IF session_id = None \/ Falsy(repo) \/ Falsy(repo_root) THEN store
    ELSE IF Sanitize(session_id) = "" THEN store
    ELSE IF store.fault = "mkdir" THEN [store EXCEPT !.raised = TRUE]
    ELSE IF store.fault = "write" THEN store
    ELSE [store EXCEPT !.files = DictSet(@, Sanitize(session_id),
                                         [repo |-> repo, repo_root |-> repo_root, mtime |-> t])]

\* _store_session_repo_context at time t: the store after; an OSError of the file write
\* leaves before the cleanup of expired entries
_store_session_repo_context(store, session_id, repo, repo_root, t) ==
    IF session_id = None \/ Falsy(repo) THEN store
    ELSE LET written == DictSet(store.cache, session_id,
                                [repo |-> repo, repo_root |-> repo_root,
                                 expires |-> t + SESSION_CACHE_TTL_SECONDS])
             filed == _write_session_file(
                          [store EXCEPT !.cache = written,
                                        !.history = DictSet(@, session_id,
                                                            [repo |-> repo, repo_root |-> repo_root])],
                          session_id, repo, repo_root, t)
         IN  IF filed.raised THEN filed
             ELSE [filed EXCEPT
                      !.cache = [s \in {x \in DOMAIN written : ~(written[x].expires < t)} |-> written[s]]]

\* no repo context found
NoContext == [found |-> FALSE, repo |-> None, repo_root |-> None]

\* a mutant of _get_session_repo_context: the memory store is never hit
GetSessionRepoContextMisses(cache, session_id, t) == [ret |-> NoContext, cache |-> cache]

\* _get_session_repo_context at time t: the entry found and the memory store after
_get_session_repo_context(cache, session_id, t) ==
    IF session_id = None \/ session_id \notin DOMAIN cache THEN [ret |-> NoContext, cache |-> cache]
    ELSE IF cache[session_id].expires < t
    THEN [ret |-> NoContext, cache |-> DictPop(cache, session_id)]
    ELSE [ret |-> [found |-> TRUE, repo |-> cache[session_id].repo,
                   repo_root |-> cache[session_id].repo_root],
          cache |-> cache]

\* _load_repo_context_from_session_file at time t: the context found and the stores after
_load_repo_context_from_session_file(store, session_id, t) ==
    LET safe_id == Sanitize(session_id)
        history == store.history
    IN  IF session_id = None \/ safe_id = "" THEN [ret |-> NoContext, store |-> store]
        ELSE IF store.fault = "exists"
        THEN [ret |-> NoContext, store |-> [store EXCEPT !.raised = TRUE]]
        ELSE IF safe_id \notin DOMAIN store.files
        THEN IF session_id \in DOMAIN history /\ history[session_id].repo # None
                                              /\ history[session_id].repo_root # None
             THEN LET rewritten == _write_session_file(store, session_id, history[session_id].repo,
                                                       history[session_id].repo_root, t)
                  IN  IF rewritten.raised THEN [ret |-> NoContext, store |-> rewritten]
                      ELSE [ret |-> [found |-> TRUE, repo |-> history[session_id].repo,
                                     repo_root |-> history[session_id].repo_root],
                            store |-> rewritten]
             ELSE [ret |-> NoContext, store |-> store]
        ELSE IF store.fault = "read" THEN [ret |-> NoContext, store |-> store]
        ELSE LET payload == store.files[safe_id]
                 kept == [store EXCEPT !.history = DictSet(history, session_id,
                                           [repo |-> payload.repo, repo_root |-> payload.repo_root])]
                 refresh_needed == SESSION_FILE_TTL_SECONDS > 0
                                   /\ t - payload.mtime > SESSION_FILE_TTL_SECONDS
                 refreshed == _write_session_file(kept, session_id, payload.repo, payload.repo_root, t)
             IN  IF payload.repo # None /\ payload.repo_root # None
                 THEN IF ~refresh_needed
                      THEN [ret |-> [found |-> TRUE, repo |-> payload.repo,
                                     repo_root |-> payload.repo_root],
                            store |-> kept]
                      ELSE IF refreshed.raised
                      THEN [ret |-> NoContext, store |-> kept]
                      ELSE [ret |-> [found |-> TRUE, repo |-> payload.repo,
                                     repo_root |-> payload.repo_root],
                            store |-> refreshed]
                 ELSE [ret |-> NoContext, store |-> store]

(***************************************************************************)
(* Repository registry and contract cache                                  *)
(***************************************************************************)
\* Path(repo_root).expanduser().resolve(), as a string
ResolvePath(repo_root) ==
    CASE repo_root = "/tmp/x/../acme" -> "/tmp/acme"
      [] OTHER -> repo_root

\* path.exists()
PathExists(path) == path \in {"/tmp/acme", "/tmp/beta"}

\* a mutant of RepoRegistry_register: the path is stored without looking whether it exists
RegisterUnchecked(repos, repo, repo_root) == DictSet(repos, repo, ResolvePath(repo_root))

\* RepoRegistry.register; a ValueError (path does not exist) leaves the registry as it was
RepoRegistry_register(repos, repo, repo_root) ==
    IF PathExists(ResolvePath(repo_root)) THEN DictSet(repos, repo, ResolvePath(repo_root)) ELSE repos

\* RepoRegistry.resolve
RepoRegistry_resolve(repos, repo) == IF repo \in DOMAIN repos THEN repos[repo] ELSE None

\* get_policy_contract: the contract (its hash) and the contract cache after
get_policy_contract(cache, repo_root) ==
    LET key == IF repo_root = None THEN "__default__" ELSE repo_root
        after == IF key \in DOMAIN cache THEN cache ELSE DictSet(cache, key, load_policy_contract(repo_root))
    IN  [ret |-> after[key], cache |-> after]

(***************************************************************************)
(* Context-exhaustion guard                                                *)
(***************************************************************************)
\* CONTEXT_SOFT_LIMIT_TOKENS (env LITELLM_CONTEXT_SOFT_LIMIT, default)
CONTEXT_SOFT_LIMIT_TOKENS == 180000

\* CONTEXT_HARD_LIMIT_TOKENS (env LITELLM_CONTEXT_HARD_LIMIT, default)
CONTEXT_HARD_LIMIT_TOKENS == 200000

\* CONTEXT_BLOCK_LIMIT_TOKENS (env LITELLM_CONTEXT_BLOCK_LIMIT, default)
CONTEXT_BLOCK_LIMIT_TOKENS == 12000

\* CONTEXT_DUPLICATE_MIN_TOKENS (env LITELLM_CONTEXT_DUP_MIN, default)
CONTEXT_DUPLICATE_MIN_TOKENS == 800

\* ENFORCEMENT_OVERHEAD_TOKENS (env LITELLM_ENFORCEMENT_OVERHEAD, default)
ENFORCEMENT_OVERHEAD_TOKENS == 400

\* _estimate_tokens_from_text
_estimate_tokens_from_text(text) ==
    IF text = <<>> THEN 0 ELSE Max(1, CeilDiv(TextLen(text), 4))

\* _normalize_message_text, for a message whose content is a string
_normalize_message_text(message) == message.content

\* the stub that replaces a duplicate block
DuplicateStub == <<"[[Duplicate context removed at proxy; reference earlier block]]">>

\* the stub that replaces a block above the block limit
BlockStub == <<"[[Block suppressed: N tokens exceeded 12000. Please summarize upstream.]]">>

RECURSIVE GuardPass1CountsOriginal(_, _, _)
\* a mutant of GuardPass1: the total counts every block as it came, stub or not
GuardPass1CountsOriginal(messages, idx, acc) ==
    IF idx > Len(messages) THEN [acc EXCEPT !.messages = messages]
    ELSE LET text == _normalize_message_text(messages[idx])
             fingerprinted == text # <<>> /\ _estimate_tokens_from_text(text) >= CONTEXT_DUPLICATE_MIN_TOKENS
             dup == fingerprinted /\ text \in acc.seen_hashes
             text1 == IF dup THEN DuplicateStub ELSE text
             large == text1 # <<>> /\ _estimate_tokens_from_text(text1) > CONTEXT_BLOCK_LIMIT_TOKENS
             text2 == IF large THEN BlockStub ELSE text1
         IN  CHOOSE out \in
                 {GuardPass1CountsOriginal(replaced, idx + 1, counted) :
                     replaced \in {[messages EXCEPT ![idx].content = text2]},
                     counted \in {[acc EXCEPT !.total_tokens = @ + _estimate_tokens_from_text(text),
                                              !.duplicates = @ + (IF dup THEN 1 ELSE 0),
                                              !.large_blocks = @ + (IF large THEN 1 ELSE 0),
                                              !.seen_hashes = IF fingerprinted THEN @ \cup {text} ELSE @]}} :
                 TRUE

RECURSIVE GuardPass1(_, _, _)
\* pass 1 (lines 602-629) from message idx on; acc holds messages, total_tokens, duplicates,
\* large_blocks and seen_hashes
GuardPass1(messages, idx, acc) ==
    IF idx > Len(messages) THEN [acc EXCEPT !.messages = messages]
    ELSE LET text == _normalize_message_text(messages[idx])
             fingerprinted == text # <<>> /\ _estimate_tokens_from_text(text) >= CONTEXT_DUPLICATE_MIN_TOKENS
             dup == fingerprinted /\ text \in acc.seen_hashes
             text1 == IF dup THEN DuplicateStub ELSE text
             large == text1 # <<>> /\ _estimate_tokens_from_text(text1) > CONTEXT_BLOCK_LIMIT_TOKENS
             text2 == IF large THEN BlockStub ELSE text1
         IN  CHOOSE out \in
                 {GuardPass1(replaced, idx + 1, counted) :
                     replaced \in {[messages EXCEPT ![idx].content = text2]},
                     counted \in {[acc EXCEPT !.total_tokens = @ + _estimate_tokens_from_text(text2),
                                              !.duplicates = @ + (IF dup THEN 1 ELSE 0),
                                              !.large_blocks = @ + (IF large THEN 1 ELSE 0),
                                              !.seen_hashes = IF fingerprinted THEN @ \cup {text} ELSE @]}} :
                 TRUE

RECURSIVE GuardTrimNoStop(_, _, _, _)
\* a mutant of GuardTrim: every candidate is removed, whatever the total has come down to
GuardTrimNoStop(messages, candidates, k, acc) ==
    IF k > Len(candidates) THEN acc
    ELSE CHOOSE out \in
             {GuardTrimNoStop(messages, candidates, k + 1, trimmed) :
                 trimmed \in {[total_tokens |-> acc.total_tokens - _estimate_tokens_from_text(
                                                    _normalize_message_text(messages[candidates[k]])),
                               removal |-> acc.removal \cup {candidates[k]}]}} :
             TRUE

RECURSIVE GuardTrim(_, _, _, _)
\* pass 2 (lines 645-649): the indices removed, from candidate k on, and the total after
GuardTrim(messages, candidates, k, acc) ==
    IF k > Len(candidates) \/ acc.total_tokens <= CONTEXT_SOFT_LIMIT_TOKENS THEN acc
    ELSE CHOOSE out \in
             {GuardTrim(messages, candidates, k + 1, trimmed) :
                 trimmed \in {[total_tokens |-> acc.total_tokens - _estimate_tokens_from_text(
                                                    _normalize_message_text(messages[candidates[k]])),
                               removal |-> acc.removal \cup {candidates[k]}]}} :
             TRUE

RECURSIVE IndicesWhere(_, _, _)
\* the indices i..n that are in keep, in increasing order
IndicesWhere(n, i, keep) ==
    IF i > n THEN <<>>
    ELSE (IF i \in keep THEN <<i>> ELSE <<>>) \o IndicesWhere(n, i + 1, keep)

\* [m for i, m in enumerate(messages) if i not in removal_set]
RemoveIndices(messages, removal) ==
    LET kept == IndicesWhere(Len(messages), 1, (DOMAIN messages) \ removal)
    IN  [j \in DOMAIN kept |-> messages[kept[j]]]

\* the synthetic response of a short-circuit: one choice, role assistant
SyntheticResponse(id, content, finish_reason) ==
    [id |-> id, choices |-> 1, role |-> "assistant", content |-> content, finish_reason |-> finish_reason]

\* no response attached
NoResponse == [id |-> None, choices |-> 0, role |-> None, content |-> <<>>, finish_reason |-> None]

\* a mutant of RiskLevel: a total of exactly 0.8 of the soft limit is still low
RiskLevelAboveOnly(total_tokens) ==
    IF CONTEXT_SOFT_LIMIT_TOKENS # 0 /\ total_tokens >= CONTEXT_SOFT_LIMIT_TOKENS THEN "high"
    ELSE IF CONTEXT_SOFT_LIMIT_TOKENS # 0 /\ 10 * total_tokens > 8 * CONTEXT_SOFT_LIMIT_TOKENS THEN "medium"
    ELSE "low"

\* risk_level (lines 683-689)
RiskLevel(total_tokens) ==
    IF CONTEXT_SOFT_LIMIT_TOKENS # 0 /\ total_tokens >= CONTEXT_SOFT_LIMIT_TOKENS THEN "high"
    ELSE IF CONTEXT_SOFT_LIMIT_TOKENS # 0 /\ 10 * total_tokens >= 8 * CONTEXT_SOFT_LIMIT_TOKENS THEN "medium"
    ELSE "low"

\* pass 2 and the outcome (lines 631-700), given the outcome p1 of pass 1
GuardOutcome(data, p1) ==
    LET users == {i \in DOMAIN p1.messages : p1.messages[i].role = "user"}
        last_user_idx == IF users = {} THEN 0 ELSE CHOOSE i \in users : \A j \in users : j <= i
        candidates == IndicesWhere(Len(p1.messages), 1,
                         {i \in DOMAIN p1.messages :
                             p1.messages[i].role # "system" /\ i # last_user_idx})
        Outcome(p2) ==
            LET messages == RemoveIndices(p1.messages, p2.removal)
                counted == [data.metadata EXCEPT
                                !.context_tokens_estimated = p2.total_tokens,
                                !.context_trimmed = p2.removal # {},
                                !.context_trimmed_count = Cardinality(p2.removal),
                                !.duplicate_blocks_detected = p1.duplicates]
            IN  IF p2.total_tokens > CONTEXT_HARD_LIMIT_TOKENS
                THEN [refused |-> TRUE,
                      data |-> [data EXCEPT
                          !.messages = messages,
                          !.response = SyntheticResponse("context_exhaustion",
                                           <<"exceeds", "context", "capacity">>, "context_exhaustion"),
                          !.skip_llm_call = TRUE,
                          !.do_not_route = TRUE,
                          !.metadata = [counted EXCEPT !.exhaustion_risk = "fatal"]]]
                ELSE [refused |-> FALSE,
                      data |-> [data EXCEPT
                          !.messages = messages,
                          !.metadata = [counted EXCEPT !.large_blocks_suppressed = p1.large_blocks,
                                                       !.exhaustion_risk = RiskLevel(p2.total_tokens)]]]
    IN  CHOOSE out \in
            {Outcome(p2) :
                p2 \in {IF p1.total_tokens > CONTEXT_SOFT_LIMIT_TOKENS
                        THEN GuardTrim(p1.messages, candidates, 1,
                                       [total_tokens |-> p1.total_tokens, removal |-> {}])
                        ELSE [total_tokens |-> p1.total_tokens, removal |-> {}]}} :
            TRUE

\* a mutant of _apply_context_exhaustion_protection: the stubs of pass 1 are counted but not
\* written into the request
ApplyContextExhaustionProtectionKeepsBlocks(data) ==
    CHOOSE out \in
        {GuardOutcome(data, [p1 EXCEPT !.messages = data.messages]) :
            p1 \in {GuardPass1(data.messages, 1,
                               [messages |-> data.messages, total_tokens |-> ENFORCEMENT_OVERHEAD_TOKENS,
                                duplicates |-> 0, large_blocks |-> 0, seen_hashes |-> {}])}} :
        TRUE

\* _apply_context_exhaustion_protection: whether it refused, and the request after
_apply_context_exhaustion_protection(data) ==
    CHOOSE out \in
        {GuardOutcome(data, p1) :
            p1 \in {GuardPass1(data.messages, 1,
                               [messages |-> data.messages, total_tokens |-> ENFORCEMENT_OVERHEAD_TOKENS,
                                duplicates |-> 0, large_blocks |-> 0, seen_hashes |-> {}])}} :
        TRUE

\* LEDGER_ENFORCEMENT_APPLY_ALL (env LITELLM_LEDGER_REPOS, default "*")
LEDGER_ENFORCEMENT_APPLY_ALL == TRUE

\* LEDGER_ENFORCEMENT_REPOS
LEDGER_ENFORCEMENT_REPOS == {}

\* _build_ledger_reminder: the reminder (<<>> for None) and the alert reason
_build_ledger_reminder(repo, metadata) ==
    LET alert == \/ metadata.context_trimmed
                 \/ metadata.context_trimmed_count > 0
                 \/ metadata.duplicate_blocks_detected > 0
                 \/ metadata.large_blocks_suppressed > 0
                 \/ metadata.exhaustion_risk \in {"medium", "high"}
    IN  IF Falsy(repo) \/ (~LEDGER_ENFORCEMENT_APPLY_ALL /\ repo \notin LEDGER_ENFORCEMENT_REPOS)
        THEN [reminder |-> <<>>, alert |-> None]
        ELSE [reminder |-> <<"LEDGER_REMINDER", repo, "REHYDRATE_FROM_README", "UPDATE_README_AND_AGENTS">>
                              \o (IF alert THEN <<"CONTEXT_GUARD_INTERVENED">> ELSE <<>>),
              alert |-> IF alert THEN "context_guard" ELSE None]

(***************************************************************************)
(* Classification cache and classifier                                     *)
(***************************************************************************)
\* CACHE_TTL_SECONDS
CACHE_TTL_SECONDS == 3600

\* MAX_CACHE_SIZE
MAX_CACHE_SIZE == 1000

\* MODEL_MAP.get(classification, "claude-haiku-4-5")
MODEL_MAP(classification) ==
    CASE classification = "SIMPLE" -> "claude-haiku-4-5"
      [] classification = "MODERATE" -> "claude-sonnet-4-5"
      [] classification = "COMPLEX" -> "claude-opus-4-5"
      [] OTHER -> "claude-haiku-4-5"

RECURSIVE WholeWords(_, _)
\* the number of leading words of a text that fit whole in its first n characters
WholeWords(text, n) ==
    IF text = <<>> \/ CharLen(Head(text)) > n THEN 0
    ELSE 1 + WholeWords(Tail(text), n - CharLen(Head(text)) - 1)

\* text[:n]: the whole words kept, then the word that is cut and how much of it is kept
TakeChars(text, n) ==
    LET k == WholeWords(text, n)
        whole == SubSeq(text, 1, k)
        left == n - TextLen(whole) - (IF k > 0 THEN 1 ELSE 0)
    IN  IF k = Len(text) \/ left <= 0
        THEN [whole |-> whole, part |-> "", kept |-> 0]
        ELSE [whole |-> whole, part |-> text[k + 1], kept |-> left]

\* ClassificationCache._hash_prompt: md5 of the first 500 characters
_hash_prompt(prompt) == TakeChars(prompt, 500)

\* the position of a key in the cache (entries in insertion order), 0 if absent
CacheIndex(cache, key) ==
    IF \E i \in DOMAIN cache : cache[i].key = key
    THEN CHOOSE i \in DOMAIN cache : cache[i].key = key
    ELSE 0

\* a mutant of ClassificationCache_get: an entry whose age is exactly the TTL is still returned
ClassificationCacheGetInclusive(cache, prompt, t, ttl) ==
    LET i == CacheIndex(cache, _hash_prompt(prompt))
    IN  IF i = 0 THEN [ret |-> None, cache |-> cache]
        ELSE IF t - cache[i].timestamp <= ttl THEN [ret |-> cache[i].classification, cache |-> cache]
        ELSE [ret |-> None, cache |-> RemoveIndices(cache, {i})]

\* ClassificationCache.get at time t: the classification (None on a miss) and the cache after
ClassificationCache_get(cache, prompt, t, ttl) ==
    LET i == CacheIndex(cache, _hash_prompt(prompt))
    IN  IF i = 0 THEN [ret |-> None, cache |-> cache]
        ELSE IF t - cache[i].timestamp < ttl THEN [ret |-> cache[i].classification, cache |-> cache]
        ELSE [ret |-> None, cache |-> RemoveIndices(cache, {i})]

\* ClassificationCache.set at time t: the cache after
ClassificationCache_set(cache, prompt, classification, t, max_size) ==
    LET oldest == CHOOSE i \in DOMAIN cache :
                      /\ \A j \in DOMAIN cache : cache[i].timestamp <= cache[j].timestamp
                      /\ \A j \in 1..(i - 1) : cache[j].timestamp > cache[i].timestamp
        room == IF Len(cache) >= max_size /\ cache # <<>> THEN RemoveIndices(cache, {oldest}) ELSE cache
        entry == [key |-> _hash_prompt(prompt), classification |-> classification, timestamp |-> t]
        i == CacheIndex(room, entry.key)
    IN  IF i = 0 THEN Append(room, entry) ELSE [room EXCEPT ![i] = entry]

\* str.upper() on one word of the classifier's answer
UpperWord(w) ==
    CASE w = "complex" -> "COMPLEX"
      [] w = "moderate" -> "MODERATE"
      [] w = "maybe" -> "MAYBE"
      [] OTHER -> w

\* a mutant of ParseClassification: an answer that names no level counts as COMPLEX
ParseClassificationDefaultsHigh(answer) ==
    LET result == [i \in DOMAIN answer |-> UpperWord(answer[i])]
    IN  IF HasWord(result, "SIMPLE") THEN "SIMPLE"
        ELSE IF HasWord(result, "MODERATE") THEN "MODERATE"
        ELSE "COMPLEX"

\* the classification read from the upstream answer (lines 1523-1535): the answer itself if it is
\* one level, else the first of SIMPLE, MODERATE, COMPLEX it contains, else SIMPLE
ParseClassification(answer) ==
    LET result == [i \in DOMAIN answer |-> UpperWord(answer[i])]
    IN  IF Len(result) = 1 /\ result[1] \in {"SIMPLE", "MODERATE", "COMPLEX"} THEN result[1]
        ELSE IF HasWord(result, "SIMPLE") THEN "SIMPLE"
        ELSE IF HasWord(result, "MODERATE") THEN "MODERATE"
        ELSE IF HasWord(result, "COMPLEX") THEN "COMPLEX"
        ELSE "SIMPLE"

\* extract_user_message: the content of the last user message, <<>> if there is none
extract_user_message(data) ==
    LET users == {i \in DOMAIN data.messages : data.messages[i].role = "user"}
    IN  IF users = {} THEN <<>>
        ELSE data.messages[CHOOSE i \in users : \A j \in users : j <= i].content

\* extract_repo_context_from_system, for one part of a marker: the value of repo=...
MarkerRepo(part) ==
    CASE part = "repo=acme" -> "acme"
      [] part = "repo=beta" -> "beta"
      [] OTHER -> None

\* extract_repo_context_from_system, for one part of a marker: the value of repo_root=...
MarkerRoot(part) ==
    CASE part = "repo_root=/tmp/acme" -> "/tmp/acme"
      [] part = "repo_root=/tmp/beta" -> "/tmp/beta"
      [] OTHER -> None

\* the last value a test gives over the parts of a text, None if none
LastPart(text, Val(_)) ==
    LET hits == {i \in DOMAIN text : Val(text[i]) # None}
    IN  IF hits = {} THEN None ELSE Val(text[CHOOSE i \in hits : \A j \in hits : j <= i])

\* extract_repo_context_from_system: the first candidate text that carries both values
extract_repo_context_from_system(data) ==
    LET in_messages == IndicesWhere(Len(data.messages), 1,
                           {i \in DOMAIN data.messages :
                               /\ data.messages[i].role \in {"system", "user"}
                               /\ HasWord(data.messages[i].content, "LITELLM_CONTEXT")})
        candidates == <<data.system>> \o [j \in DOMAIN in_messages |-> data.messages[in_messages[j]].content]
        good == {k \in DOMAIN candidates :
                    /\ HasWord(candidates[k], "LITELLM_CONTEXT")
                    /\ LastPart(candidates[k], MarkerRepo) # None
                    /\ LastPart(candidates[k], MarkerRoot) # None}
        first == CHOOSE k \in good : \A j \in good : k <= j
    IN  IF good = {} THEN NoContext
        ELSE [found |-> TRUE, repo |-> LastPart(candidates[first], MarkerRepo),
              repo_root |-> LastPart(candidates[first], MarkerRoot)]

(***************************************************************************)
(* Pipeline driver: ComplexityRouter.async_pre_call_hook                   *)
(*                                                                         *)
(* A frame w holds the request (data), the hook's local variables, the     *)
(* process-wide stores as the hook sees them, the clock t, and the code    *)
(* blocks that have run (ran).  Each stage maps a frame to a frame; a      *)
(* frame that has returned passes through the later stages unchanged.      *)
(* A frame also records what the properties below speak about: the request *)
(* as received (in), the override store and clock when the hook was        *)
(* entered (seen), when the classification stage read the store (read)     *)
(* and when the segment ended (left), and system and messages as they were *)
(* right before injection (before_inject), the repo context as resolved    *)
(* from its sources (context) and the classifier's answer (answer).        *)
(***************************************************************************)
\* a mutant of apply_repo_context: every source overrides what an earlier one has set
ApplyRepoContextOverriding(metadata, repo, repo_root, override) ==
    [metadata EXCEPT
        !.repo = IF ~Falsy(repo) THEN repo ELSE @,
        !.repo_root = IF ~Falsy(repo_root) THEN repo_root ELSE @]

\* apply_repo_context: the metadata after
apply_repo_context(metadata, repo, repo_root, override) ==
    [metadata EXCEPT
        !.repo = IF ~Falsy(repo) /\ (override \/ Falsy(@)) THEN repo ELSE @,
        !.repo_root = IF ~Falsy(repo_root) /\ (override \/ Falsy(@)) THEN repo_root ELSE @]

\* apply_repo_context: its return value (applied)
RepoContextApplied(metadata, repo, repo_root, override) ==
    \/ ~Falsy(repo) /\ (override \/ Falsy(metadata.repo))
    \/ ~Falsy(repo_root) /\ (override \/ Falsy(metadata.repo_root))

\* get_repo_root_from_request: the resolved root (None if none), the request and the registry after.
\* An authorization header is [scheme, token] (scheme None: the header holds no space, token
\* <<>> and scheme None: no such header); a token "repo::key" is <<"repo", "::", "key">>.
\* The header is read under the key "authorization" or else "Authorization" (line 1206) and
\* written under "authorization" (line 1221).
get_repo_root_from_request(data, repos) ==
    LET lower == data.headers.authorization
        auth_header == IF lower.scheme # None \/ lower.token # <<>> THEN lower
                       ELSE data.headers.Authorization
        token == auth_header.token
        seps == {i \in DOMAIN token : token[i] = "::"}
        sep == CHOOSE i \in seps : \A j \in seps : i <= j
        potential_repo == IF seps # {} /\ sep > 1 THEN token[1] ELSE None
        real_token == IF seps # {} THEN SubSeq(token, sep + 1, Len(token)) ELSE <<>>
        repo_name == IF Falsy(data.metadata.repo) THEN potential_repo ELSE data.metadata.repo
        repo_root == data.metadata.repo_root
        data1 == [data EXCEPT
                     !.metadata.repo = IF potential_repo # None THEN repo_name ELSE @,
                     !.headers.authorization = IF real_token # <<>>
                                               THEN [scheme |-> auth_header.scheme, token |-> real_token]
                                               ELSE @]
    IN  IF ~Falsy(repo_name) /\ ~Falsy(repo_root)
        THEN [ret |-> ResolvePath(repo_root), data |-> data1,
              repos |-> RepoRegistry_register(repos, repo_name, repo_root)]
        ELSE IF ~Falsy(repo_root)
        THEN [ret |-> ResolvePath(repo_root), data |-> data1, repos |-> repos]
        ELSE [ret |-> None, data |-> data1, repos |-> repos]

\* lines 1611-1626: request id, build id, metadata forwarded under litellm_params
StageIdentify(w) ==
    [w EXCEPT
        !.data.metadata.request_id = IF Falsy(@) THEN "uuid4" ELSE @,
        !.data.metadata.router_build_id = IF @ = None THEN "ROUTER_BUILD_ID" ELSE @,
        !.data.metadata.request_type = IF @ = None THEN w.data.lp_request_type ELSE @]

\* lines 1647-1700: repo context from headers, metadata, CLAUDE_METADATA, system prompt, session store
StageRepoContext(w) ==
    LET FromSession(md4, session_id) ==
            With(_get_session_repo_context(w.session.cache, session_id, w.t), LAMBDA mem :
            With([w.session EXCEPT !.cache = mem.cache], LAMBDA session1 :
            With(_load_repo_context_from_session_file(session1, session_id, w.t), LAMBDA disk :
                IF mem.ret.found
                THEN [w EXCEPT !.session_id = session_id, !.session = session1,
                               !.data.metadata = apply_repo_context(md4, mem.ret.repo,
                                                                    mem.ret.repo_root, FALSE)]
                ELSE IF session_id # None
                THEN [w EXCEPT
                         !.session_id = session_id,
                         !.data.metadata = IF disk.ret.found
                                           THEN apply_repo_context(md4, disk.ret.repo,
                                                                   disk.ret.repo_root, FALSE)
                                           ELSE md4,
                         !.session = IF /\ disk.ret.found
                                        /\ RepoContextApplied(md4, disk.ret.repo, disk.ret.repo_root, FALSE)
                                     THEN _store_session_repo_context(disk.store, session_id,
                                              disk.ret.repo, disk.ret.repo_root, w.t)
                                     ELSE disk.store]
                ELSE [w EXCEPT !.session_id = session_id, !.session = session1,
                               !.data.metadata = md4])))
    IN  With(apply_repo_context(w.data.metadata, w.data.headers.repo, w.data.headers.repo_root, TRUE),
        LAMBDA md1 :
        With(apply_repo_context(md1, md1.repo, md1.repo_root, FALSE), LAMBDA md2 :
        With(apply_repo_context(md2, CLAUDE_METADATA.repo, CLAUDE_METADATA.repo_root, FALSE), LAMBDA md3 :
        With(extract_repo_context_from_system(w.data), LAMBDA ctx :
        With(IF ctx.found THEN apply_repo_context(md3, ctx.repo, ctx.repo_root, FALSE) ELSE md3,
        LAMBDA md4 :
        With(_extract_session_id(md4.user_id), LAMBDA session_id :
        With(FromSession(md4, session_id), LAMBDA out :
            [out EXCEPT !.context = [repo |-> out.data.metadata.repo,
                                     repo_root |-> out.data.metadata.repo_root],
                        !.returned = out.session.raised])))))))

\* a mutant of StageGuard: a refused request goes on through the later stages
StageGuardGoesOn(w) ==
    LET guard == _apply_context_exhaustion_protection(w.data)
    IN  [w EXCEPT !.data = guard.data, !.ran = @ \cup {"guard"}]

\* lines 1702-1707: context-exhaustion guard and ledger reminder
StageGuard(w) ==
    LET Guarded(guard) ==
            LET ledger == _build_ledger_reminder(guard.data.metadata.repo, guard.data.metadata)
            IN  IF guard.refused
                THEN [w EXCEPT !.data = guard.data, !.returned = TRUE, !.ran = @ \cup {"guard"}]
                ELSE [w EXCEPT !.data = [guard.data EXCEPT
                                            !.metadata.ledger_alert =
                                                IF ledger.alert # None THEN ledger.alert ELSE @],
                               !.ledger_reminder = ledger.reminder,
                               !.ledger_alert = ledger.alert,
                               !.ran = @ \cup {"guard"}]
    IN  IF w.returned THEN w
        ELSE CHOOSE out \in {Guarded(guard) : guard \in {_apply_context_exhaustion_protection(w.data)}} : TRUE

\* a mutant of StageBootstrap: the bootstrap answer is attached and the hook goes on
StageBootstrapGoesOn(w) ==
    IF w.returned \/ w.data.metadata.request_type # "repo_bootstrap" THEN w
    ELSE [w EXCEPT
             !.data.response = SyntheticResponse("repo_bootstrap",
                                   <<"Repository", "registered", "successfully.">>, "stop"),
             !.data.skip_llm_call = TRUE,
             !.data.do_not_route = TRUE,
             !.ran = @ \cup {"bootstrap"}]

\* lines 1719-1757: repo bootstrap short-circuit
StageBootstrap(w) ==
    IF w.returned \/ w.data.metadata.request_type # "repo_bootstrap" THEN w
    ELSE With(get_repo_root_from_request(w.data, w.repos), LAMBDA boot :
         With([boot.data.metadata EXCEPT !.repo_root = IF boot.ret # None THEN boot.ret ELSE @],
         LAMBDA md :
         With(_store_session_repo_context(w.session, _extract_session_id(md.user_id),
                                          md.repo, md.repo_root, w.t),
         LAMBDA stored :
             [w EXCEPT
                 !.data = IF stored.raised
                          THEN [boot.data EXCEPT
                                   !.model = IF Falsy(@) THEN "claude-haiku-4-5" ELSE @,
                                   !.metadata = md]
                          ELSE [boot.data EXCEPT
                                   !.model = IF Falsy(@) THEN "claude-haiku-4-5" ELSE @,
                                   !.metadata = md,
                                   !.response = SyntheticResponse("repo_bootstrap",
                                                    <<"Repository", "registered", "successfully.">>,
                                                    "stop"),
                                   !.skip_llm_call = TRUE,
                                   !.do_not_route = TRUE],
                 !.repos = boot.repos,
                 !.session = stored,
                 !.returned = TRUE,
                 !.ran = @ \cup {"bootstrap"}])))

\* lines 1760-1769: resolve the repo root from the request metadata
StageResolveRoot(w) ==
    IF w.returned THEN w
    ELSE With(get_repo_root_from_request(w.data, w.repos), LAMBDA got :
             [w EXCEPT !.data = got.data, !.repos = got.repos, !.repo_root = got.ret])

\* lines 1782-1791: other call types are returned as they are; locals for the later stages
StageCallType(w) ==
    IF w.returned THEN w
    ELSE IF w.call_type \notin {"completion", "acompletion", "anthropic_messages"}
    THEN [w EXCEPT !.returned = TRUE]
    ELSE [w EXCEPT !.original_model_for_refusal = w.data.model,
                   !.user_message = extract_user_message(w.data)]

\* a mutant of StageClassificationCheck: the tag is not looked at
StageClassificationCheckPasses(w) == w

\* lines 1793-1802: the classifier's own request is returned
StageClassificationCheck(w) ==
    IF w.returned THEN w
    ELSE IF w.data.metadata.request_type = "classification" \/ w.data.lp_request_type = "classification"
    THEN [w EXCEPT !.returned = TRUE]
    ELSE w

\* lines 1808-1811: a request already marked as refused is returned
StageIdempotency(w) ==
    IF w.returned THEN w
    ELSE IF w.data.metadata.policy_violation = "true" THEN [w EXCEPT !.returned = TRUE]
    ELSE w

\* lines 1813-1825: load the contract of the resolved repo root
StageContract(w) ==
    IF w.returned \/ w.repo_root = None THEN w
    ELSE With(get_policy_contract(w.policy, w.repo_root), LAMBDA got :
             [w EXCEPT !.policy = got.cache,
                       !.self_contract = got.ret,
                       !.contract = got.ret,
                       !.data.metadata.repo_root = w.repo_root,
                       !.ran = @ \cup {"contract"}])

\* the refusal text of a policy violation: it names the contract hash and the reason
RefusalMessage(contract_hash, violation_reason) ==
    <<"violates", "documentation", "policy", "hash:", contract_hash>> \o violation_reason
        \o <<"update", "README.md", "or", "AGENTS.md">>

\* a mutant of StagePolicy: the refusal leaves the model of a refused request rewritten
StagePolicyFakeModel(w) ==
    IF w.returned \/ w.repo_root = None \/ w.contract = None \/ w.user_message = <<>> THEN w
    ELSE With(detect_policy_violation(w.user_message), LAMBDA violation_reason :
             IF violation_reason = <<>> THEN [w EXCEPT !.ran = @ \cup {"detect"}]
             ELSE [w EXCEPT
                     !.data = [w.data EXCEPT
                         !.metadata.policy_violation = "true",
                         !.metadata.contract_hash = w.contract,
                         !.metadata.violation_reason = violation_reason,
                         !.response = SyntheticResponse("policy_violation",
                                          RefusalMessage(w.contract, violation_reason), "policy_violation"),
                         !.model = "policy_violation",
                         !.skip_llm_call = TRUE,
                         !.do_not_route = TRUE],
                     !.returned = TRUE,
                     !.ran = @ \cup {"detect"}])

\* lines 1831-1882: documentation-policy detection and synthetic refusal
StagePolicy(w) ==
    IF w.returned \/ w.repo_root = None \/ w.contract = None \/ w.user_message = <<>> THEN w
    ELSE With(detect_policy_violation(w.user_message), LAMBDA violation_reason :
             IF violation_reason = <<>> THEN [w EXCEPT !.ran = @ \cup {"detect"}]
             ELSE [w EXCEPT
                     !.data = [w.data EXCEPT
                         !.metadata.policy_violation = "true",
                         !.metadata.contract_hash = w.contract,
                         !.metadata.violation_reason = violation_reason,
                         !.response = SyntheticResponse("policy_violation",
                                          RefusalMessage(w.contract, violation_reason), "policy_violation"),
                         !.model = w.original_model_for_refusal,
                         !.skip_llm_call = TRUE,
                         !.do_not_route = TRUE],
                     !.returned = TRUE,
                     !.ran = @ \cup {"detect"}])

\* a mutant of StageInject: the enforcement text replaces the system the client sent
StageInjectDropsSystem(w) ==
    IF w.returned \/ w.repo_root = None \/ w.contract = None \/ w.contract = "" THEN w
    ELSE [w EXCEPT
             !.data.messages = SelectSeq(@, LAMBDA msg : msg.role # "system"),
             !.data.system = w.ledger_reminder \o generate_enforcement_system_message(w.contract),
             !.before_inject = [system |-> w.data.system, messages |-> w.data.messages],
             !.ran = @ \cup {"inject"}]

\* lines 1884-1917: enforcement system message as the top-level system field
StageInject(w) ==
    IF w.returned \/ w.repo_root = None \/ w.contract = None \/ w.contract = "" THEN w
    ELSE LET enforcement_message == w.ledger_reminder \o generate_enforcement_system_message(w.contract)
         IN  [w EXCEPT
                 !.data.messages = SelectSeq(@, LAMBDA msg : msg.role # "system"),
                 !.data.system = IF @ # <<>> THEN enforcement_message \o <<"---">> \o @
                                 ELSE enforcement_message,
                 !.before_inject = [system |-> w.data.system, messages |-> w.data.messages],
                 !.ran = @ \cup {"inject"}]

\* lines 1925-1972: override commands, active override, fast path, classification cache.
\* The clock is read at w.t when the expiry of a set command is computed and at w.t + w.drift after.
StageClassify(w) ==
    LET Classified(session_id, cmd, t1, overrides1, active) ==
            With(ClassificationCache_get(w.classifications, w.user_message, t1, CACHE_TTL_SECONDS),
            LAMBDA cached :
            With([w EXCEPT !.session_id = session_id, !.t = t1, !.overrides = active.cache,
                           !.read = [t |-> t1, overrides |-> overrides1],
                           !.ran = @ \cup {"override_get"}
                                     \cup (IF cmd.kind = "set" /\ session_id # None
                                           THEN {"override_set"} ELSE {})
                                     \cup (IF cmd.kind = "cancel" THEN {"override_cancel"} ELSE {})],
            LAMBDA w1 :
                IF active.ret # None
                THEN [w1 EXCEPT !.classification = active.ret,
                                !.override_applied = TRUE,
                                !.override_remaining_seconds =
                                    _get_override_remaining_seconds(active.cache, session_id, t1)]
                ELSE IF w.user_message = <<>> THEN [w1 EXCEPT !.classification = "SIMPLE"]
                ELSE IF TextLen(w.user_message) < 20
                THEN [w1 EXCEPT !.classification = "SIMPLE", !.ran = @ \cup {"fast_path"}]
                ELSE IF cached.ret # None
                THEN [w1 EXCEPT !.classification = cached.ret, !.classifications = cached.cache,
                                !.ran = @ \cup {"cache_get"}]
                ELSE [w1 EXCEPT !.classifications = cached.cache, !.awaiting = TRUE,
                                !.ran = @ \cup {"cache_get", "classifier_call"}]))
    IN  IF w.returned THEN w
        ELSE With(_extract_session_id(w.data.metadata.user_id), LAMBDA session_id :
             With(_parse_override_command(w.user_message, w.default_ttl, w.max_ttl), LAMBDA cmd :
             With(IF cmd.kind = "set" THEN w.t + w.drift ELSE w.t, LAMBDA t1 :
             With(CASE cmd.kind = "cancel" -> _cancel_complexity_override(w.overrides, session_id)
                    [] cmd.kind = "set" -> _set_complexity_override(w.overrides, session_id,
                                               cmd.complexity, cmd.ttl_minutes, w.t, t1)
                    [] OTHER -> w.overrides,
             LAMBDA overrides1 :
             With(_get_complexity_override(overrides1, session_id, t1), LAMBDA active :
                 Classified(session_id, cmd, t1, overrides1, active))))))

\* Path(repo_root_meta).name
PathName(path) ==
    CASE path = "/tmp/acme" -> "acme"
      [] path = "/tmp/beta" -> "beta"
      [] path = "/tmp/x/../acme" -> "acme"
      [] OTHER -> path

\* a mutant of RoutedModel: every request is sent to the cheap tier
RoutedModelAlwaysCheap(classification) == MODEL_MAP("SIMPLE")

\* selected_model (line 1975)
RoutedModel(classification) == MODEL_MAP(classification)

\* lines 1974-2090: model rewrite, metadata bundle, stash in the side cache
StageFinish(w) ==
    IF w.returned \/ w.awaiting THEN w
    ELSE With(w.data.metadata, LAMBDA md :
         With(RoutedModel(w.classification), LAMBDA selected_model :
         With(IF w.repo_root # None THEN w.self_contract ELSE None, LAMBDA contract :
         With([environment |-> IF ~Falsy(md.repo) THEN md.repo
                               ELSE IF ~Falsy(md.repo_root) THEN PathName(md.repo_root)
                               ELSE "unscoped",
               complexity_classification |-> w.classification,
               original_model_requested |-> w.data.model,
               routed_to_model |-> selected_model,
               router |-> "complexity_router_v2",
               prompt_length |-> TextLen(w.user_message),
               repo |-> IF Falsy(md.repo) THEN "unscoped" ELSE md.repo,
               repo_root |-> IF md.repo_root = None THEN "" ELSE md.repo_root,
               contract_hash |-> IF contract # None THEN contract ELSE "",
               policy_enforced |-> IF contract # None /\ contract # "" THEN "true" ELSE "false",
               request_id |-> md.request_id,
               ledger_alert |-> IF w.ledger_alert # None THEN w.ledger_alert ELSE "none",
               ledger_reminder_active |-> IF w.ledger_reminder # <<>> THEN "true" ELSE "false",
               complexity_override_active |-> IF w.override_applied THEN "true" ELSE "false",
               complexity_override_remaining_seconds |-> w.override_remaining_seconds],
         LAMBDA bundle :
         With(extract_user_message(w.data), LAMBDA user_message_for_key :
             [w EXCEPT
                 !.data.model = selected_model,
                 !.data.metadata = [md EXCEPT
                     !.environment = bundle.environment,
                     !.complexity_classification = bundle.complexity_classification,
                     !.original_model_requested = bundle.original_model_requested,
                     !.routed_to_model = bundle.routed_to_model,
                     !.prompt_length = bundle.prompt_length,
                     !.repo = bundle.repo,
                     !.repo_root = bundle.repo_root,
                     !.contract_hash = bundle.contract_hash,
                     !.policy_enforced = bundle.policy_enforced,
                     !.ledger_alert = bundle.ledger_alert,
                     !.ledger_reminder_active = bundle.ledger_reminder_active,
                     !.complexity_override_active = bundle.complexity_override_active,
                     !.complexity_override_remaining_seconds =
                         bundle.complexity_override_remaining_seconds],
                 !.side = IF user_message_for_key = <<>> THEN @
                          ELSE DictSet(@, TakeChars(user_message_for_key, 200),
                                       [value |-> bundle, expires |-> w.t + 300]),
                 !.returned = TRUE,
                 !.ran = @ \cup {"rewrite"}
                           \cup (IF user_message_for_key = <<>> THEN {} ELSE {"stash"})])))))

\* the frames a stage gives on each of the frames ws: a stage works on the frame the stage
\* before it has produced
Then(ws, Stage(_)) == {Stage(w) : w \in ws}

\* async_pre_call_hook up to its return or to the await of the classifier call (line 1510)
HookToAwait(w) ==
    LET identified == Then(Then(Then({w}, StageIdentify), StageRepoContext), StageGuard)
        resolved == Then(Then(Then(identified, StageBootstrap), StageResolveRoot), StageCallType)
        checked == Then(Then(Then(resolved, StageClassificationCheck), StageIdempotency), StageContract)
        enforced == Then(Then(checked, StagePolicy), StageInject)
    IN  CHOOSE out \in Then(Then(enforced, StageClassify), StageFinish) : TRUE

\* a mutant of HookAfterAwait: the classifier's text is taken as the classification as it is
HookAfterAwaitUnparsed(w, answer) ==
    LET result == IF answer.text = <<>> THEN "" ELSE answer.text[1]
        got == [given |-> TRUE, error |-> answer.error, text |-> answer.text]
        classified == IF answer.error
                      THEN [w EXCEPT !.classification = "SIMPLE", !.awaiting = FALSE, !.answer = got]
                      ELSE [w EXCEPT !.classification = result, !.awaiting = FALSE, !.answer = got,
                                     !.classifications = ClassificationCache_set(@, w.user_message, result,
                                                                                 w.t, MAX_CACHE_SIZE)]
    IN  With(classified, StageFinish)

\* classify_with_haiku and the hook after the classifier call has answered or raised
\* (lines 1523-1571, 1974-2090); answer.error is an exception of the call
HookAfterAwait(w, answer) ==
    LET result == ParseClassification(answer.text)
        got == [given |-> TRUE, error |-> answer.error, text |-> answer.text]
        classified == IF answer.error
                      THEN [w EXCEPT !.classification = "SIMPLE", !.awaiting = FALSE, !.answer = got]
                      ELSE [w EXCEPT !.classification = result, !.awaiting = FALSE, !.answer = got,
                                     !.classifications = ClassificationCache_set(@, w.user_message, result,
                                                                                 w.t, MAX_CACHE_SIZE)]
    IN  With(classified, StageFinish)

(***************************************************************************)
(* Requests, frames and the actions of the proxy                           *)
(***************************************************************************)
\* request slots: the requests that can be in flight at once
Slots == {1, 2}

\* the metadata a client sends; every other key is absent
ClientMetadata(request_type, repo, repo_root, user_id, policy_violation) ==
    [request_id |-> None, router_build_id |-> None, request_type |-> request_type,
     repo |-> repo, repo_root |-> repo_root, user_id |-> user_id,
     policy_violation |-> policy_violation,
     context_tokens_estimated |-> NoNum, context_trimmed |-> FALSE, context_trimmed_count |-> NoNum,
     duplicate_blocks_detected |-> NoNum, large_blocks_suppressed |-> NoNum, exhaustion_risk |-> None,
     ledger_alert |-> None, contract_hash |-> None, violation_reason |-> <<>>,
     environment |-> None, complexity_classification |-> None, original_model_requested |-> None,
     routed_to_model |-> None, prompt_length |-> NoNum, policy_enforced |-> None,
     ledger_reminder_active |-> None, complexity_override_active |-> None,
     complexity_override_remaining_seconds |-> NoNum]

\* an inbound request (the data dict and the call_type argument of the hook)
Request(model, call_type, metadata, headers, system, messages) ==
    [call_type |-> call_type,
     data |-> [model |-> model, messages |-> messages, system |-> system, metadata |-> metadata,
               lp_request_type |-> None, headers |-> headers,
               response |-> NoResponse, skip_llm_call |-> FALSE, do_not_route |-> FALSE]]

\* no recognised header
NoHeaders ==
    [repo |-> None, repo_root |-> None, authorization |-> [scheme |-> None, token |-> <<>>],
     Authorization |-> [scheme |-> None, token |-> <<>>]]

\* the process-wide stores as a frame carries them while a segment of the hook runs
Stores ==
    [t |-> now, overrides |-> _complexity_override_cache,
     session |-> [cache |-> _session_repo_cache, history |-> _session_repo_history, files |-> session_files,
                  fault |-> disk_fault, raised |-> FALSE],
     repos |-> _repo_registry, policy |-> policy_cache, self_contract |-> self_contract,
     classifications |-> _cache, side |-> side_cache,
     default_ttl |-> COMPLEXITY_OVERRIDE_DEFAULT_TTL_MINUTES, max_ttl |-> COMPLEXITY_OVERRIDE_MAX_TTL_MINUTES]

\* CORALOGIX_ENABLED with a tracer set up (OBS_BACKEND names coralogix; lines 772, 936-988)
\* and CORALOGIX_SAMPLE_RATE 1.0 (line 839): record_coralogix_trace records every span
CORALOGIX_ENABLED == TRUE

\* the attributes of a span that are not None (record_coralogix_trace, safe_attrs)
SafeAttrs(attributes) == [k \in {a \in DOMAIN attributes : attributes[a] # None} |-> attributes[k]]

\* async_log_success_event (lines 2118-2344) for the kwargs of a request the upstream has
\* answered, with the side cache, self._contract and the clock as they are at that time:
\* kwargs["metadata"] after the call and the spans recorded.  LiteLLM hands the request's
\* metadata over as kwargs["metadata"] and kwargs["litellm_params"]["metadata"]; what comes
\* from the upstream response (token counts, latency, completion text) is left out.
\* stored_metadata (line 2184) is <<>> for None and <<bundle>> for a bundle found.
async_log_success_event(kwargs, side, contract, t) ==
    LET user_message == extract_user_message(kwargs)
        cache_key == TakeChars(user_message, 200)
        md == kwargs.metadata
        stored == cache_key \in DOMAIN side /\ side[cache_key].expires > t
        has_our_metadata == md.environment # None \/ md.complexity_classification # None
        enforced == contract # None /\ contract # ""
        contract_hash == IF enforced THEN contract ELSE ""
        policy_enforced == IF enforced THEN "true" ELSE "false"
        md1 == IF has_our_metadata
               THEN [md EXCEPT !.contract_hash = contract_hash, !.policy_enforced = policy_enforced]
               ELSE md
        md2 == IF stored
               THEN LET bundle == side[cache_key].value
                    IN  [md1 EXCEPT
                            !.environment = bundle.environment,
                            !.complexity_classification = bundle.complexity_classification,
                            !.original_model_requested = bundle.original_model_requested,
                            !.routed_to_model = bundle.routed_to_model,
                            !.prompt_length = bundle.prompt_length,
                            !.repo = bundle.repo,
                            !.repo_root = bundle.repo_root,
                            !.ledger_alert = bundle.ledger_alert,
                            !.ledger_reminder_active = bundle.ledger_reminder_active,
                            !.complexity_override_active = bundle.complexity_override_active,
                            !.complexity_override_remaining_seconds =
                                bundle.complexity_override_remaining_seconds,
                            !.contract_hash = contract_hash,
                            !.policy_enforced = policy_enforced]
               ELSE [md1 EXCEPT !.environment = md1.repo,
                                !.contract_hash = contract_hash,
                                !.policy_enforced = policy_enforced]
        coralogix_attrs ==
            [a \in {"litellm.repo", "litellm.environment", "litellm.request_id",
                    "litellm.classification", "litellm.router.model",
                    "litellm.router.original_model", "litellm.ledger_alert",
                    "litellm.ledger_reminder_active", "gen_ai.operation.name", "gen_ai.system",
                    "gen_ai.request.model", "gen_ai.response.model", "gen_ai.prompt.0.role"} |->
                CASE a = "litellm.repo" -> md2.repo
                  [] a = "litellm.environment" -> md2.environment
                  [] a = "litellm.request_id" -> md.request_id
                  [] a = "litellm.classification" -> md2.complexity_classification
                  [] a = "litellm.router.model" -> kwargs.model
                  [] a = "litellm.router.original_model" -> md2.original_model_requested
                  [] a = "litellm.ledger_alert" -> md2.ledger_alert
                  [] a = "litellm.ledger_reminder_active" -> md2.ledger_reminder_active
                  [] a = "gen_ai.operation.name" -> "chat"
                  [] a = "gen_ai.system" -> "anthropic"
                  [] a = "gen_ai.request.model" -> md2.routed_to_model
                  [] a = "gen_ai.response.model" -> md2.routed_to_model
                  [] a = "gen_ai.prompt.0.role" -> "user"]
    IN  IF user_message = <<>>
        THEN [called |-> TRUE, metadata |-> md, stored_metadata |-> <<>>, spans |-> <<>>]
        ELSE [called |-> TRUE, metadata |-> md2,
              stored_metadata |-> IF stored THEN <<side[cache_key].value>> ELSE <<>>,
              spans |-> IF CORALOGIX_ENABLED
                        THEN <<[name |-> "litellm.request", attributes |-> SafeAttrs(coralogix_attrs)]>>
                        ELSE <<>>]

\* the post-call hook has not run for the request
NoPost == [called |-> FALSE, metadata |-> None, stored_metadata |-> <<>>, spans |-> <<>>]

\* no answer of the classifier call yet
NoAnswer == [given |-> FALSE, error |-> FALSE, text |-> <<>>]

\* the hook's local variables: what a request keeps between two segments
Locals(w) ==
    [pc |-> IF w.session.raised THEN "raised" ELSE IF w.awaiting THEN "classify" ELSE "done",
     in |-> w.in, data |-> w.data, call_type |-> w.call_type, session_id |-> w.session_id,
     repo_root |-> w.repo_root, user_message |-> w.user_message,
     original_model_for_refusal |-> w.original_model_for_refusal, contract |-> w.contract,
     ledger_reminder |-> w.ledger_reminder, ledger_alert |-> w.ledger_alert,
     classification |-> w.classification, override_applied |-> w.override_applied,
     override_remaining_seconds |-> w.override_remaining_seconds,
     returned |-> w.returned, awaiting |-> w.awaiting, ran |-> w.ran,
     before_inject |-> w.before_inject, seen |-> w.seen, read |-> w.read, answer |-> w.answer,
     context |-> w.context, post |-> NoPost,
     left |-> [t |-> w.t, overrides |-> w.overrides, session |-> w.session, repos |-> w.repos,
               policy |-> w.policy, classifications |-> w.classifications, side |-> w.side]]

\* the frame of a request that enters the hook
NewFrame(in, drift) ==
    LET st == Stores
    IN  [in |-> in, data |-> in.data, call_type |-> in.call_type, session_id |-> None,
         repo_root |-> None, user_message |-> <<>>, original_model_for_refusal |-> "", contract |-> None,
         ledger_reminder |-> <<>>, ledger_alert |-> None, classification |-> None,
         override_applied |-> FALSE, override_remaining_seconds |-> 0,
         returned |-> FALSE, awaiting |-> FALSE, ran |-> {}, answer |-> NoAnswer,
         context |-> [repo |-> None, repo_root |-> None],
         before_inject |-> [system |-> <<>>, messages |-> <<>>], drift |-> drift,
         seen |-> [t |-> now, overrides |-> _complexity_override_cache,
                   session |-> st.session, repos |-> st.repos, policy |-> st.policy,
                   classifications |-> st.classifications, side |-> st.side],
         read |-> [t |-> now, overrides |-> EmptyDict],
         t |-> st.t, overrides |-> st.overrides, session |-> st.session, repos |-> st.repos,
         policy |-> st.policy, self_contract |-> st.self_contract,
         classifications |-> st.classifications, side |-> st.side,
         default_ttl |-> st.default_ttl, max_ttl |-> st.max_ttl]

\* the frame of a suspended request when it resumes
ResumedFrame(locals) ==
    LET st == Stores
    IN  [in |-> locals.in, data |-> locals.data, call_type |-> locals.call_type,
         session_id |-> locals.session_id, repo_root |-> locals.repo_root,
         user_message |-> locals.user_message,
         original_model_for_refusal |-> locals.original_model_for_refusal, contract |-> locals.contract,
         ledger_reminder |-> locals.ledger_reminder, ledger_alert |-> locals.ledger_alert,
         classification |-> locals.classification, override_applied |-> locals.override_applied,
         override_remaining_seconds |-> locals.override_remaining_seconds,
         returned |-> locals.returned, awaiting |-> locals.awaiting, ran |-> locals.ran,
         answer |-> locals.answer, context |-> locals.context,
         before_inject |-> locals.before_inject, drift |-> 0, seen |-> locals.seen,
         read |-> locals.read,
         t |-> st.t, overrides |-> st.overrides, session |-> st.session, repos |-> st.repos,
         policy |-> st.policy, self_contract |-> st.self_contract,
         classifications |-> st.classifications, side |-> st.side,
         default_ttl |-> st.default_ttl, max_ttl |-> st.max_ttl]

\* a slot no request has used yet
IdleSlot == [pc |-> "idle"]

\* the stores and the slot after a segment of the hook has run to frame w
Commit(r, w) ==
    /\ now' = w.t
    /\ _complexity_override_cache' = w.overrides
    /\ _session_repo_cache' = w.session.cache
    /\ _session_repo_history' = w.session.history
    /\ session_files' = w.session.files
    /\ _repo_registry' = w.repos
    /\ policy_cache' = w.policy
    /\ self_contract' = w.self_contract
    /\ _cache' = w.classifications
    /\ side_cache' = w.side
    /\ req' = [req EXCEPT ![r] = Locals(w)]
    /\ UNCHANGED <<COMPLEXITY_OVERRIDE_DEFAULT_TTL_MINUTES, COMPLEXITY_OVERRIDE_MAX_TTL_MINUTES,
                   CLAUDE_METADATA, disk_fault, pf_in, pf_out>>

\* how many requests a behaviour of the enforcement pipeline accepts
MaxRequests == 2

\* how many requests a behaviour of one or two sessions accepts
MaxSessionRequests == 3

\* the clock steps, in seconds, between two reads of the clock in one segment of the hook
ClockSteps == {0, 1}

\* a request arrives and takes the first slot that holds no request in flight; the hook runs
\* to its return or to the classifier call
PreCall(r, in, drift) ==
    /\ req[r].pc \in {"idle", "done", "raised"}
    /\ \A q \in Slots : q < r => req[q].pc = "classify"
    /\ served' = served + 1
    /\ \E w \in {HookToAwait(NewFrame(in, drift))} : Commit(r, w)

\* the classifier call of the request in slot r answers (or raises) and the hook runs to its return
ClassifierReturn(r, answer) ==
    /\ req[r].pc = "classify"
    /\ UNCHANGED served
    /\ \E w \in {HookAfterAwait(ResumedFrame(req[r]), answer)} : Commit(r, w)

\* the request in slot r is cancelled while it waits for the classifier call: the await of
\* line 1510 raises asyncio.CancelledError, a BaseException, which `except Exception`
\* (line 1569) does not catch and nothing in the hook catches; the hook's frame is left as
\* it was when it was suspended, and nothing more of the hook runs
ClassifierCancelled(r) ==
    /\ req[r].pc = "classify"
    /\ req' = [req EXCEPT ![r].pc = "cancelled"]
    /\ UNCHANGED <<now, COMPLEXITY_OVERRIDE_DEFAULT_TTL_MINUTES, COMPLEXITY_OVERRIDE_MAX_TTL_MINUTES,
                   CLAUDE_METADATA, disk_fault, _complexity_override_cache, _session_repo_cache, _session_repo_history,
                   session_files, _repo_registry, policy_cache, self_contract, _cache,
                   side_cache, served, pf_in, pf_out>>

\* a mutant of LogSuccess: the post-call hook runs when the stash has just run out
LogSuccessLate(r) ==
    /\ req[r].pc = "done"
    /\ ~req[r].data.skip_llm_call
    /\ ~req[r].post.called
    /\ req' = [req EXCEPT ![r].post = async_log_success_event(req[r].data, side_cache, self_contract,
                                                              now + 300)]
    /\ UNCHANGED <<now, COMPLEXITY_OVERRIDE_DEFAULT_TTL_MINUTES, COMPLEXITY_OVERRIDE_MAX_TTL_MINUTES,
                   CLAUDE_METADATA, disk_fault, _complexity_override_cache, _session_repo_cache, _session_repo_history,
                   session_files, _repo_registry, policy_cache, self_contract, _cache,
                   side_cache, served, pf_in, pf_out>>

\* the upstream has answered the request of slot r and LiteLLM calls async_log_success_event
LogSuccess(r) ==
    /\ req[r].pc = "done"
    /\ ~req[r].data.skip_llm_call
    /\ ~req[r].post.called
    /\ req' = [req EXCEPT ![r].post = async_log_success_event(req[r].data, side_cache, self_contract, now)]
    /\ UNCHANGED <<now, COMPLEXITY_OVERRIDE_DEFAULT_TTL_MINUTES, COMPLEXITY_OVERRIDE_MAX_TTL_MINUTES,
                   CLAUDE_METADATA, disk_fault, _complexity_override_cache, _session_repo_cache, _session_repo_history,
                   session_files, _repo_registry, policy_cache, self_contract, _cache,
                   side_cache, served, pf_in, pf_out>>

\* the disk steps of the session store that can fail: SESSION_FILE_DIR.mkdir (line 355),
\* session_path.exists (line 311, with an OSError that Path.exists does not swallow),
\* reading the file (lines 321-322) and writing it (lines 362-364)
DiskFaults == {"mkdir", "exists", "read", "write"}

\* the disk starts or stops failing at one step
DiskFault(fault) ==
    /\ disk_fault # fault
    /\ disk_fault' = fault
    /\ UNCHANGED <<now, COMPLEXITY_OVERRIDE_DEFAULT_TTL_MINUTES, COMPLEXITY_OVERRIDE_MAX_TTL_MINUTES,
                   CLAUDE_METADATA, _complexity_override_cache, _session_repo_cache,
                   _session_repo_history, session_files, _repo_registry, policy_cache, self_contract,
                   _cache, side_cache, req, served, pf_in, pf_out>>

\* the proxy process is restarted: the module-level stores start empty (lines 41-48, 206-226)
\* and the session files stay on disk
Restart ==
    /\ \A r \in Slots : req[r].pc # "classify"
    /\ \E r \in Slots : req[r].pc # "idle"
    /\ _complexity_override_cache' = EmptyDict
    /\ _session_repo_cache' = EmptyDict
    /\ _session_repo_history' = EmptyDict
    /\ _repo_registry' = EmptyDict
    /\ policy_cache' = EmptyDict
    /\ self_contract' = None
    /\ _cache' = <<>>
    /\ side_cache' = EmptyDict
    /\ req' = [r \in Slots |-> IdleSlot]
    /\ UNCHANGED <<now, COMPLEXITY_OVERRIDE_DEFAULT_TTL_MINUTES, COMPLEXITY_OVERRIDE_MAX_TTL_MINUTES,
                   CLAUDE_METADATA, disk_fault, session_files, served, pf_in, pf_out>>

\* seconds of one step of the clock
TickSeconds == 60

\* how many steps of the clock a behaviour takes
MaxTicks == 1

\* time passes
Tick ==
    /\ now < MaxTicks * TickSeconds
    /\ now' = now + TickSeconds
    /\ UNCHANGED <<COMPLEXITY_OVERRIDE_DEFAULT_TTL_MINUTES, COMPLEXITY_OVERRIDE_MAX_TTL_MINUTES,
                   CLAUDE_METADATA, disk_fault, _complexity_override_cache, _session_repo_cache, _session_repo_history,
                   session_files, _repo_registry, policy_cache, self_contract, _cache,
                   side_cache, req, served, pf_in, pf_out>>

\* the stores of a process that has just started, with the override TTLs as configured
\* and the CLAUDE_METADATA of its environment
InitProcess(default_ttl, max_ttl, claude_metadata) ==
    /\ now = 0
    /\ COMPLEXITY_OVERRIDE_DEFAULT_TTL_MINUTES = default_ttl
    /\ COMPLEXITY_OVERRIDE_MAX_TTL_MINUTES = max_ttl
    /\ CLAUDE_METADATA = claude_metadata
    /\ disk_fault = None
    /\ _complexity_override_cache = EmptyDict
    /\ _session_repo_cache = EmptyDict
    /\ _session_repo_history = EmptyDict
    /\ session_files = EmptyDict
    /\ _repo_registry = EmptyDict
    /\ policy_cache = EmptyDict
    /\ self_contract = None
    /\ _cache = <<>>
    /\ side_cache = EmptyDict
    /\ req = [r \in Slots |-> IdleSlot]
    /\ served = 0

\* the stores of a process that has just started with CLAUDE_METADATA unset
InitStores(default_ttl, max_ttl) == InitProcess(default_ttl, max_ttl, NoContext)

(***************************************************************************)
(* Pure function under check: detect_policy_violation                      *)
(***************************************************************************)
\* the longest message, in words, given to detect_policy_violation
MaxWords == 3

\* the words those messages are made of
PolicyWords == {"Create", "docs/", "README.md", "agents.md", "new", "markdown", "file", "design/", "please"}

\* the messages given to detect_policy_violation
PolicyMessages == UNION {[1..k -> PolicyWords] : k \in 0..MaxWords}

\* pf_out before the function has been applied
NotApplied == [done |-> FALSE, ret |-> <<>>]

\* detect_policy_violation is applied to pf_in
DetectPolicyViolation ==
    /\ ~pf_out.done
    /\ pf_out' = [done |-> TRUE, ret |-> detect_policy_violation(pf_in)]
    /\ UNCHANGED <<now, COMPLEXITY_OVERRIDE_DEFAULT_TTL_MINUTES, COMPLEXITY_OVERRIDE_MAX_TTL_MINUTES,
                   CLAUDE_METADATA, disk_fault, _complexity_override_cache, _session_repo_cache, _session_repo_history,
                   session_files, _repo_registry, policy_cache, self_contract, _cache,
                   side_cache, req, served, pf_in>>

InitPolicy ==
    /\ InitStores(5, 60)
    /\ pf_in \in PolicyMessages
    /\ pf_out = NotApplied

NextPolicy == DetectPolicyViolation

SpecPolicy == InitPolicy /\ [][NextPolicy]_vars

\* C5: detect_policy_violation reports no violation for a message that names readme.md or
\* agents.md in any letter case, whatever else it contains; a message without such a mention
\* that contains a listed phrase, or a documentation folder together with a creation verb, is
\* reported as a violation
C5_EscapeHatchElseViolation ==
    pf_out.done =>
        LET lower == Lower(pf_in)
            mention == \E i \in DOMAIN lower : lower[i] \in {"readme.md", "agents.md"}
            phrase == \E i \in DOMAIN violation_patterns : Contains(lower, violation_patterns[i].pattern)
            folder == \E i \in DOMAIN lower :
                          lower[i] \in {"docs/", "architecture/", "design/", "documentation/"}
            verb == \E i \in DOMAIN lower : lower[i] \in {"create", "write", "generate", "add", "new"}
        IN  /\ mention => pf_out.ret = <<>>
            /\ (~mention /\ (phrase \/ (folder /\ verb))) => pf_out.ret # <<>>

\* C5 happens: a listed phrase together with README.md in capitals is let through
C5_Witness ==
    /\ pf_out.done
    /\ pf_in = <<"Create", "docs/", "README.md">>
    /\ pf_out.ret = <<>>

(***************************************************************************)
(* The requests of the enforcement pipeline                                *)
(***************************************************************************)
\* one message
Msg(role, content) == [role |-> role, content |-> content]

\* a short greeting: under 20 characters
ShortText == <<"Hello!">>

\* a benign request of 20 characters or more
LongText == <<"please", "review", "this", "section", "carefully">>

\* a request the violation detector refuses
ViolationText == <<"please", "Create", "docs/", "plan">>

\* the same request with the escape hatch
EscapedText == <<"please", "Create", "docs/", "in", "README.md">>

\* an override command and a violation in one message
OverrideViolationText == <<"use", "opus", "for", "5", "minutes", "Create", "docs/">>

\* the user_id of a Claude Code session
SessionUser(sid) == <<"user_x", "account__session_", sid>>

\* a request with no repo context
Unscoped == [repo |-> None, repo_root |-> None]

\* a request with a repo_root and no repo
RootOnly == [repo |-> None, repo_root |-> "/tmp/acme"]

\* a request with repo and repo_root
Scoped == [repo |-> "acme", repo_root |-> "/tmp/acme"]

\* the system and messages a client sends around its last user message:
\* alone, or with a top-level system, a system-role message and an assistant turn
Conversation(shape, text) ==
    IF shape = "bare"
    THEN [system |-> <<>>, messages |-> <<Msg("user", text)>>]
    ELSE [system |-> <<"please", "review">>,
          messages |-> <<Msg("system", <<"ok">>), Msg("user", <<"Hello!">>),
                         Msg("assistant", <<"ok">>), Msg("user", text)>>]

\* a chat request of the enforcement pipeline
PipelineRequest(call_type, request_type, scope, user_id, policy_violation, shape, text) ==
    LET c == Conversation(shape, text)
    IN  Request("client-model", call_type,
                ClientMetadata(request_type, scope.repo, scope.repo_root, user_id, policy_violation),
                NoHeaders, c.system, c.messages)

\* ordinary chat requests, and the same with a policy_violation key the client set itself
EnforcementInputs ==
    {PipelineRequest("completion", None, scope, <<>>, None, shape, text) :
        scope \in {Unscoped, RootOnly, Scoped}, shape \in {"bare", "full"},
        text \in {ShortText, LongText, ViolationText}}
    \cup
    {PipelineRequest("completion", None, Scoped, <<>>, None, shape, EscapedText) :
        shape \in {"bare", "full"}}
    \cup
    {PipelineRequest("completion", None, scope, <<>>, "true", "bare", text) :
        scope \in {Unscoped, Scoped}, text \in {ShortText, ViolationText}}

\* the requests the hook short-circuits: the classifier's own and the bootstrap
ShortCircuitInputs ==
    {PipelineRequest("completion", request_type, Scoped, <<>>, None, "full", text) :
        request_type \in {"classification", "repo_bootstrap"}, text \in {ShortText, ViolationText}}

\* other call types
CallTypeInputs ==
    {PipelineRequest(call_type, None, Scoped, <<>>, None, "bare", ViolationText) :
        call_type \in {"anthropic_messages", "embedding"}}

\* requests of a session: an override command with a violation, and a request that follows
SessionInputs ==
    {PipelineRequest("completion", None, Scoped, SessionUser("s1"), None, "bare", text) :
        text \in {OverrideViolationText, LongText}}
    \cup {PipelineRequest("completion", None, Unscoped, SessionUser("s1"), None, "bare",
                          OverrideViolationText)}

\* the requests of Spec
Inputs == EnforcementInputs \cup ShortCircuitInputs \cup CallTypeInputs \cup SessionInputs

\* what the classifier call gives: an answer text, or an exception
Answers ==
    {[error |-> FALSE, text |-> <<"COMPLEX">>], [error |-> FALSE, text |-> <<"moderate">>],
     [error |-> TRUE, text |-> <<>>]}

Init ==
    /\ InitStores(5, 60)
    /\ pf_in = <<>>
    /\ pf_out = NotApplied

Next ==
    \/ \E r \in Slots, in \in Inputs : served < MaxRequests /\ PreCall(r, in, 0)
    \/ \E r \in Slots, answer \in Answers : ClassifierReturn(r, answer)

Spec == Init /\ [][Next]_vars

(***************************************************************************)
(* Properties of the enforcement pipeline (Spec)                           *)
(***************************************************************************)
\* the slots that hold a request the hook has returned
Returned == {r \in Slots : req[r].pc = "done"}

\* the slots that hold a request, returned or waiting for the classifier
Entered == {r \in Slots : req[r].pc # "idle"}

\* the call types the hook processes
ChatCallTypes == {"completion", "acompletion", "anthropic_messages"}

\* C1: a request whose metadata request_type is 'classification' is returned unchanged: the
\* context guard, policy detection, injection, classification and model rewrite do not run,
\* messages, model and system are as received, and no context_tokens_estimated,
\* exhaustion_risk or skip fields are added
C1_ClassificationRequestUntouched ==
    \A r \in Returned :
        req[r].in.data.metadata.request_type = "classification" =>
            /\ req[r].ran \cap {"guard", "detect", "inject", "override_get", "rewrite"} = {}
            /\ req[r].data.messages = req[r].in.data.messages
            /\ req[r].data.model = req[r].in.data.model
            /\ req[r].data.system = req[r].in.data.system
            /\ req[r].data.metadata.context_tokens_estimated = NoNum
            /\ req[r].data.metadata.exhaustion_risk = None
            /\ ~req[r].data.skip_llm_call

\* C2: every request returned without the skip flag, of a chat call type, whose request_type
\* is neither classification nor repo_bootstrap and for which a repo_root was resolved, carries
\* a system field that contains the enforcement message with that repo_root's contract hash
C2_ScopedRequestCarriesEnforcement ==
    \A r \in Returned :
        (/\ ~req[r].data.skip_llm_call
         /\ req[r].call_type \in ChatCallTypes
         /\ req[r].data.metadata.request_type \notin {"classification", "repo_bootstrap"}
         /\ req[r].repo_root # None)
        => Contains(req[r].data.system,
                    generate_enforcement_system_message(ContractHashOf(req[r].repo_root)))

\* C3: after injection, system is non-empty and contains the contract hash, no message has the
\* role system, a system the client sent is kept after the enforcement text and the separator,
\* and the other messages are kept in their order
C3_InjectionShape ==
    \A r \in Entered :
        "inject" \in req[r].ran =>
            LET system == req[r].data.system
                before == req[r].before_inject
                hash == ContractHashOf(req[r].repo_root)
                kept == Len(system) - Len(before.system)
            IN  /\ system # <<>>
                /\ HasWord(system, hash)
                /\ \A i \in DOMAIN req[r].data.messages : req[r].data.messages[i].role # "system"
                /\ before.system # <<>> =>
                       /\ kept > 1
                       /\ SubSeq(system, kept + 1, Len(system)) = before.system
                       /\ system[kept] = "---"
                       /\ HasWord(SubSeq(system, 1, kept - 1), hash)
                /\ req[r].data.messages = SelectSeq(before.messages, LAMBDA msg : msg.role # "system")

\* C3 happens: injection on a scoped request that came with a system field, a system-role
\* message and other messages
C3_Witness ==
    \E r \in Returned :
        /\ "inject" \in req[r].ran
        /\ req[r].data.metadata.repo = "acme"
        /\ req[r].before_inject.system = <<"please", "review">>
        /\ \E i \in DOMAIN req[r].before_inject.messages : req[r].before_inject.messages[i].role = "system"
        /\ Len(req[r].data.messages) = 3

\* C4: when the detector finds a violation in the last user message of a scoped request, the
\* hook returns with one assistant choice, finish_reason policy_violation, a content that names
\* the reason and the contract hash, the skip flag set and the client's model; no classifier
\* call is made, the override store is as it was and no system message is injected
C4_ViolationRefused ==
    \A r \in Entered :
        ("detect" \in req[r].ran /\ detect_policy_violation(req[r].user_message) # <<>>) =>
            LET response == req[r].data.response
            IN  /\ req[r].pc = "done"
                /\ response.choices = 1
                /\ response.role = "assistant"
                /\ response.finish_reason = "policy_violation"
                /\ Contains(response.content, detect_policy_violation(req[r].user_message))
                /\ HasWord(response.content, ContractHashOf(req[r].repo_root))
                /\ req[r].data.skip_llm_call
                /\ req[r].data.model = req[r].in.data.model
                /\ req[r].ran \cap {"classifier_call", "cache_get", "override_get", "override_set",
                                    "override_cancel", "inject", "rewrite"} = {}
                /\ req[r].left.overrides = req[r].seen.overrides
                /\ req[r].data.system = req[r].in.data.system

\* C4 happens: a refused request of a session that also carried an override command
C4_Witness ==
    \E r \in Returned :
        /\ "detect" \in req[r].ran
        /\ req[r].user_message = OverrideViolationText
        /\ req[r].session_id = "s1"
        /\ req[r].data.response.finish_reason = "policy_violation"
        /\ req[r].data.model = "client-model"

\* C6: for a chat request that is not scoped (repo and repo_root do not both resolve to
\* non-empty values) no contract is loaded, the detector does not run and injection leaves
\* system and messages alone; the request is still classified and its model rewritten
C6_UnscopedBypassesEnforcement ==
    \A r \in Returned :
        (/\ req[r].call_type \in ChatCallTypes
         /\ req[r].in.data.metadata.request_type = None
         /\ req[r].in.data.metadata.policy_violation = None
         /\ \/ req[r].in.data.metadata.repo = None
            \/ req[r].in.data.metadata.repo_root = None)
        => /\ req[r].ran \cap {"contract", "detect", "inject"} = {}
           /\ req[r].data.system = req[r].in.data.system
           /\ "rewrite" \in req[r].ran
           /\ req[r].data.model = MODEL_MAP(req[r].classification)

\* C11: of two requests whose last user messages share their first 500 characters and that
\* both reach the cache/classifier step within the cache TTL, at most one makes a classifier
\* call, and both receive the same classification
C11_OneClassifierCallPerPrompt ==
    \A r, q \in Entered :
        (/\ r # q
         /\ "cache_get" \in req[r].ran
         /\ "cache_get" \in req[q].ran
         /\ _hash_prompt(req[r].user_message) = _hash_prompt(req[q].user_message))
        => /\ ~("classifier_call" \in req[r].ran /\ "classifier_call" \in req[q].ran)
           /\ (req[r].pc = "done" /\ req[q].pc = "done") =>
                  req[r].classification = req[q].classification

(***************************************************************************)
(* Sessions and override commands (SpecOverride)                           *)
(***************************************************************************)
\* a chat request with no repo context, of a session or of none (user_id <<>>)
SessionRequest(user_id, text) ==
    PipelineRequest("completion", None, Unscoped, user_id, None, "bare", text)

\* the override commands and the other messages of a session
OverrideTexts ==
    {<<"use", "opus", "for", "1", "minutes">>, <<"USE", "sonnet">>,
     <<"switch", "to", "haiku", "for", "0", "minutes">>,
     <<"CANCEL", "override">>, <<"use", "opus", "cancel", "override">>,
     LongText}

\* the requests of SpecOverride: those of one session, and a command of a client without a
\* session
OverrideInputs ==
    {SessionRequest(SessionUser("s1"), text) : text \in OverrideTexts}
    \cup {SessionRequest(<<>>, <<"use", "opus", "for", "1", "minutes">>)}

\* what the classifier call gives in SpecOverride
OverrideAnswers == {[error |-> FALSE, text |-> <<"COMPLEX">>]}

\* no request is waiting for the classifier
NoneInFlight == \A q \in Slots : req[q].pc # "classify"

\* The override store is read and written in the first segment of the hook only, which runs
\* without a suspension, so the requests of SpecOverride arrive one after the other: the
\* store goes through the same values as when they overlap.
NextOverride ==
    \/ \E r \in Slots, in \in OverrideInputs, drift \in ClockSteps :
           served < MaxSessionRequests /\ NoneInFlight /\ PreCall(r, in, drift)
    \/ \E r \in Slots, answer \in OverrideAnswers : ClassifierReturn(r, answer)
    \/ Tick

SpecOverride == Init /\ [][NextOverride]_vars

\* the command _parse_override_command reads in the last user message of the request in slot r
CommandOf(r) ==
    _parse_override_command(req[r].user_message, COMPLEXITY_OVERRIDE_DEFAULT_TTL_MINUTES,
                            COMPLEXITY_OVERRIDE_MAX_TTL_MINUTES)

\* the entry of session sid in an override store is live at time t
Live(store, sid, t) == sid # None /\ sid \in DOMAIN store /\ ~(store[sid].expires < t)

\* C7: when an override of the request's session is live as the classification stage reads the
\* override store, the classification is the stored complexity, request.model and
\* routed_to_model are that tier's model, and neither the classification cache nor the
\* classifier is consulted, whatever the user message
C7_LiveOverrideDecides ==
    \A r \in Entered :
        ("override_get" \in req[r].ran /\ Live(req[r].read.overrides, req[r].session_id, req[r].read.t)) =>
            LET complexity == req[r].read.overrides[req[r].session_id].complexity
            IN  /\ req[r].pc = "done"
                /\ req[r].classification = complexity
                /\ req[r].data.metadata.complexity_classification = complexity
                /\ req[r].data.model = MODEL_MAP(complexity)
                /\ req[r].data.metadata.routed_to_model = MODEL_MAP(complexity)
                /\ req[r].ran \cap {"cache_get", "classifier_call", "fast_path"} = {}

\* C7 happens: a long message, which the classifier would otherwise rate, is routed by the
\* override a default-TTL command has left
C7_Witness ==
    \E r \in Returned :
        /\ req[r].user_message = LongText
        /\ Live(req[r].read.overrides, req[r].session_id, req[r].read.t)
        /\ req[r].read.overrides[req[r].session_id].complexity = "MODERATE"
        /\ req[r].data.model = "claude-sonnet-4-5"

\* the tier a set command in a text asks for, None if the text holds no set command
CommandedTier(text) ==
    LET m == Lower(text)
        starts == {i \in DOMAIN m : OverrideModelPos(m, i) # 0}
    IN  IF starts = {} THEN None
        ELSE _MODEL_NAME_TO_COMPLEXITY(m[OverrideModelPos(m, CHOOSE i \in starts : \A j \in starts : i <= j)])

\* C8 as stated: for every request whose last user message contains a set command, after the
\* hook the override store holds the command's complexity for the request's session and the
\* request is routed to the commanded tier
C8_EverySetCommandStoresAndRoutes ==
    \A r \in Returned :
        LET tier == CommandedTier(extract_user_message(req[r].in.data))
            sid == req[r].session_id
        IN  tier # None =>
                /\ sid # None
                /\ sid \in DOMAIN req[r].left.overrides
                /\ req[r].left.overrides[sid].complexity = tier
                /\ req[r].data.model = MODEL_MAP(tier)

\* C8, amended: a request with a session id that reaches the override stage with a set command
\* (no cancel command in the same message) of at least one minute leaves {complexity,
\* ttl_minutes} of the command in the store for its session and is routed to the commanded
\* tier; a later request of the session that carries no command and arrives while the entry is
\* live is routed to the stored tier without a classifier call
C8_SessionSetCommandStoresAndRoutes ==
    \A r \in Entered :
        LET cmd == CommandOf(r)
            sid == req[r].session_id
        IN  /\ ("override_set" \in req[r].ran /\ cmd.ttl_minutes >= 1) =>
                   /\ req[r].pc = "done"
                   /\ sid \in DOMAIN req[r].left.overrides
                   /\ req[r].left.overrides[sid].complexity = cmd.complexity
                   /\ req[r].left.overrides[sid].ttl_minutes = cmd.ttl_minutes
                   /\ req[r].data.model = MODEL_MAP(cmd.complexity)
                   /\ "classifier_call" \notin req[r].ran
            /\ (/\ "override_get" \in req[r].ran
                /\ cmd.kind = "none"
                /\ Live(req[r].seen.overrides, sid, req[r].seen.t)) =>
                   /\ req[r].pc = "done"
                   /\ req[r].data.model = MODEL_MAP(req[r].seen.overrides[sid].complexity)
                   /\ "classifier_call" \notin req[r].ran

\* C8 happens: after "use opus for 1 minutes" a long message of the session, arriving before
\* the expiry, goes to the expensive tier
C8_Witness ==
    \E r \in Returned :
        /\ req[r].user_message = LongText
        /\ req[r].session_id = "s1"
        /\ Live(req[r].seen.overrides, "s1", req[r].seen.t)
        /\ req[r].seen.overrides["s1"].complexity = "COMPLEX"
        /\ req[r].seen.overrides["s1"].ttl_minutes = 1
        /\ req[r].data.model = "claude-opus-4-5"

\* a request arrives in slot r in this step
Arrives(r) ==
    /\ served' # served
    /\ req[r].pc # "classify"
    /\ \A q \in Slots : q < r => req[q].pc = "classify"

\* C9: a cancel command of a session leaves no entry of the session in the override store, and
\* from then on, until a set command of the session arrives, no entry appears and the
\* classification of its requests is not taken from an override: it comes from the fast path,
\* the cache or the classifier, with complexity_override_active false
C9_CancelClearsUntilNewSet ==
    [][/\ \A r \in Slots :
              (Arrives(r) /\ "override_get" \in req'[r].ran /\ req'[r].session_id # None) =>
                  LET sid == req'[r].session_id
                      unset == /\ ~req'[r].override_applied
                               /\ sid \notin DOMAIN _complexity_override_cache'
                               /\ req'[r].ran \cap {"fast_path", "cache_get"} # {}
                               /\ req'[r].pc = "done" =>
                                      req'[r].data.metadata.complexity_override_active = "false"
                  IN  /\ "override_cancel" \in req'[r].ran => unset
                      /\ (sid \notin DOMAIN _complexity_override_cache /\ "override_set" \notin req'[r].ran)
                             => unset
       /\ \A sid \in (DOMAIN _complexity_override_cache') \ (DOMAIN _complexity_override_cache) :
              \E r \in Slots : Arrives(r) /\ req'[r].session_id = sid /\ "override_set" \in req'[r].ran
      ]_vars

\* C9 happens: a cancel command arrives while the override of the session is live
C9_Witness ==
    \E r \in Returned :
        /\ "override_cancel" \in req[r].ran
        /\ Live(req[r].seen.overrides, req[r].session_id, req[r].seen.t)
        /\ req[r].session_id \notin DOMAIN req[r].left.overrides
        /\ req[r].data.metadata.complexity_override_active = "false"

(***************************************************************************)
(* Override lifetimes under every configuration (SpecTTL)                  *)
(***************************************************************************)
\* the largest LITELLM_OVERRIDE_DEFAULT_TTL and LITELLM_OVERRIDE_MAX_TTL configured, in minutes
MaxTtlConfig == 3

\* a set command with the duration N, or with none
TtlTexts ==
    {<<"use", "opus">>} \cup {<<"use", "sonnet", "for", NumberWords[n], "minutes">> : n \in DOMAIN NumberWords}

\* the requests of SpecTTL
TtlInputs == {SessionRequest(SessionUser("s1"), text) : text \in TtlTexts}

InitTTL ==
    /\ \E default_ttl \in 1..MaxTtlConfig, max_ttl \in 1..MaxTtlConfig : InitStores(default_ttl, max_ttl)
    /\ pf_in = <<>>
    /\ pf_out = NotApplied

NextTTL ==
    \/ \E r \in Slots, in \in TtlInputs, drift \in ClockSteps :
           served < MaxRequests /\ PreCall(r, in, drift)

SpecTTL == InitTTL /\ [][NextTTL]_vars

\* C10: every entry written to the override store has ttl_minutes of at most
\* LITELLM_OVERRIDE_MAX_TTL and expires at most that many minutes after it was created, with
\* and without a duration in the command, for every configured default and maximum
C10_EntriesWithinMaxTtl ==
    \A sid \in DOMAIN _complexity_override_cache :
        LET entry == _complexity_override_cache[sid]
        IN  /\ entry.ttl_minutes <= COMPLEXITY_OVERRIDE_MAX_TTL_MINUTES
            /\ entry.expires - entry.created <= COMPLEXITY_OVERRIDE_MAX_TTL_MINUTES * 60

(***************************************************************************)
(* Requests with a large context (SpecGuard)                               *)
(***************************************************************************)
\* the text of file i: files differ from one another and stay under the block limit
FileBlock(i) == <<"<47960 characters of a file>">> \o [j \in 1..i |-> "a"]

\* a conversation of k file blocks: the messages at the positions sys have role system, the
\* others are user and assistant turns
LongConversation(k, sys) ==
    [i \in 1..k |-> Msg(IF i \in sys THEN "system" ELSE IF i % 2 = 1 THEN "user" ELSE "assistant",
                        FileBlock(i))]

\* how many file blocks the longest conversation holds
MaxBlocks == 18

\* the conversations of SpecGuard: a short one, and long ones that stay under the soft limit,
\* pass it, and pass the hard limit with and without messages that can be trimmed
GuardConversations ==
    {<<Msg("user", ShortText)>>}
    \cup {LongConversation(k, {}) : k \in {MaxBlocks - 4, MaxBlocks - 3}}
    \cup {LongConversation(MaxBlocks, 1..n) : n \in {MaxBlocks - 3, MaxBlocks - 2, MaxBlocks}}

\* the requests of SpecGuard: chat, classification and bootstrap requests of a session
GuardInputs ==
    {Request("client-model", "completion",
             ClientMetadata(request_type, scope.repo, scope.repo_root, SessionUser("s1"), None),
             NoHeaders, <<>>, messages) :
        request_type \in {None, "classification", "repo_bootstrap"},
        scope \in {Unscoped, Scoped},
        messages \in GuardConversations}
    \cup {PipelineRequest("completion", None, Scoped, SessionUser("s1"), None, "bare", text) :
              text \in {ViolationText, OverrideViolationText}}

NextGuard ==
    \/ \E r \in Slots, in \in GuardInputs : served < MaxRequests /\ PreCall(r, in, 0)
    \/ \E r \in Slots, answer \in OverrideAnswers : ClassifierReturn(r, answer)

SpecGuard == Init /\ [][NextGuard]_vars

RECURSIVE TokensOf(_)
\* the token estimate of the messages of a request, summed
TokensOf(messages) ==
    IF messages = <<>> THEN 0
    ELSE _estimate_tokens_from_text(Head(messages).content) + TokensOf(Tail(messages))

\* the messages of the request in slot r as the guard left them
GuardedMessages(r) ==
    IF "inject" \in req[r].ran THEN req[r].before_inject.messages ELSE req[r].data.messages

\* the stages that follow the guard
LaterStages ==
    {"bootstrap", "contract", "detect", "inject", "override_get", "override_set", "override_cancel",
     "fast_path", "cache_get", "classifier_call", "rewrite", "stash"}

\* C12: a request whose metadata request_type is 'repo_bootstrap' is returned with the skip
\* flag set and a synthetic response with finish_reason 'stop', without a classifier call or
\* a model rewrite, and leaves its {repo, repo_root} in the session store (memory and disk
\* file) under its session id
C12_BootstrapStoresSession ==
    \A r \in Returned :
        req[r].in.data.metadata.request_type = "repo_bootstrap" =>
            LET md == req[r].data.metadata
                sid == req[r].session_id
                store == req[r].left.session
            IN  /\ req[r].data.skip_llm_call
                /\ req[r].data.response.finish_reason = "stop"
                /\ req[r].ran \cap {"classifier_call", "rewrite"} = {}
                /\ (sid # None /\ ~Falsy(md.repo) /\ ~Falsy(md.repo_root)) =>
                       /\ sid \in DOMAIN store.cache
                       /\ store.cache[sid].repo = md.repo
                       /\ store.cache[sid].repo_root = md.repo_root
                       /\ Sanitize(sid) \in DOMAIN store.files
                       /\ store.files[Sanitize(sid)].repo = md.repo
                       /\ store.files[Sanitize(sid)].repo_root = md.repo_root

\* C13: the guard marks a request exhaustion_risk 'fatal' exactly when the estimated total of
\* the messages it leaves, with the enforcement overhead, exceeds the hard limit; such a
\* request is returned at once with the skip flag and a synthetic response with finish_reason
\* 'context_exhaustion', and no later stage runs: its model is the one the client sent
C13_FatalExactlyAboveHard ==
    \A r \in Entered :
        "guard" \in req[r].ran =>
            LET md == req[r].data.metadata
                total == ENFORCEMENT_OVERHEAD_TOKENS + TokensOf(GuardedMessages(r))
            IN  /\ md.exhaustion_risk = "fatal" <=> total > CONTEXT_HARD_LIMIT_TOKENS
                /\ md.exhaustion_risk = "fatal" =>
                       /\ req[r].pc = "done"
                       /\ req[r].data.skip_llm_call
                       /\ req[r].data.response.choices = 1
                       /\ req[r].data.response.finish_reason = "context_exhaustion"
                       /\ req[r].ran \cap LaterStages = {}
                       /\ req[r].data.model = req[r].in.data.model
                       /\ req[r].classification = None

\* C13 happens: a chat request whose system messages alone pass the hard limit is refused
\* after the one message that can be trimmed has been trimmed
C13_Witness ==
    \E r \in Returned :
        /\ req[r].in.data.metadata.request_type = None
        /\ req[r].data.metadata.exhaustion_risk = "fatal"
        /\ req[r].data.metadata.context_trimmed_count = 1
        /\ req[r].data.response.finish_reason = "context_exhaustion"

(***************************************************************************)
(* Pure function under check: _apply_context_exhaustion_protection         *)
(***************************************************************************)
\* the longest conversation, in messages, of the per-block pass
MaxDupBlocks == 3

\* the texts of those messages: a greeting, files of 799, 800 and 801 tokens and a file
\* above the block limit
DupTexts ==
    {ShortText, <<"<3193 characters of a file>">>, <<"<3197 characters of a file>">>,
     <<"<3201 characters of a file>">>, <<"<60000 characters of file B>">>}

\* the conversations of the per-block pass
DupConversations ==
    UNION {{[i \in 1..k |-> Msg("user", texts[i])] : texts \in [1..k -> DupTexts]} : k \in 1..MaxDupBlocks}

\* a conversation of k file blocks in which the messages at the positions small are greetings
TrimConversation(k, sys, small) ==
    [i \in 1..k |->
        IF i \in small THEN Msg(LongConversation(k, sys)[i].role, ShortText)
        ELSE LongConversation(k, sys)[i]]

\* the conversations of the trimming pass: around the soft and the hard limit, with system
\* messages first, last, in between and everywhere, and with messages that cost next to nothing
TrimConversations ==
    {TrimConversation(k, sys \cap (1..k), small) :
        k \in (MaxBlocks - 4)..MaxBlocks,
        sys \in {{}, {1}, {3}, {2, 4}, {MaxBlocks - 4}, 1..(MaxBlocks - 1), 1..MaxBlocks},
        small \in {{}, {1}, {2, 3}}}

\* conversations whose total comes to 0.8 of the soft limit and to the soft limit, exactly
\* and one token under: k different files and one last file that fills up the total
RiskConversations ==
    {Append(LongConversation(11, {}), Msg("user", <<fill>>)) :
        fill \in {"<46692 characters of a file>", "<46696 characters of a file>"}}
    \cup {Append(LongConversation(14, {}), Msg("user", <<fill>>)) :
              fill \in {"<46732 characters of a file>", "<46736 characters of a file>"}}

\* long conversations whose second message is a file above the block limit
BlockConversations ==
    {[LongConversation(MaxBlocks, sys) EXCEPT ![2].content = <<"<60000 characters of file B>">>] :
        sys \in {{}, 1..(MaxBlocks - 1)}}

\* the request the guard is given: the messages pf_in of a client
GuardedRequest(messages) ==
    Request("client-model", "completion", ClientMetadata(None, None, None, <<>>, None),
            NoHeaders, <<>>, messages).data

\* _apply_context_exhaustion_protection is applied to the request of pf_in
ApplyGuard ==
    /\ ~pf_out.done
    /\ pf_out' = [done |-> TRUE, ret |-> _apply_context_exhaustion_protection(GuardedRequest(pf_in))]
    /\ UNCHANGED <<now, COMPLEXITY_OVERRIDE_DEFAULT_TTL_MINUTES, COMPLEXITY_OVERRIDE_MAX_TTL_MINUTES,
                   CLAUDE_METADATA, disk_fault, _complexity_override_cache, _session_repo_cache, _session_repo_history,
                   session_files, _repo_registry, policy_cache, self_contract, _cache,
                   side_cache, req, served, pf_in>>

InitGuardFn ==
    /\ InitStores(5, 60)
    /\ pf_in \in DupConversations \cup TrimConversations \cup RiskConversations \cup BlockConversations
    /\ pf_out = NotApplied

NextGuardFn == ApplyGuard

SpecGuardFn == InitGuardFn /\ [][NextGuardFn]_vars

\* the messages of pf_in as the per-block pass leaves them
AfterBlockPass ==
    GuardPass1(pf_in, 1, [messages |-> pf_in, total_tokens |-> ENFORCEMENT_OVERHEAD_TOKENS,
                          duplicates |-> 0, large_blocks |-> 0, seen_hashes |-> {}]).messages

\* the positions the trimming pass may remove: not a system message, not the last user message
TrimCandidates(messages) ==
    LET users == {i \in DOMAIN messages : messages[i].role = "user"}
    IN  IndicesWhere(Len(messages), 1,
            {i \in DOMAIN messages :
                /\ messages[i].role # "system"
                /\ ~(i \in users /\ \A j \in users : j <= i)})

\* C14: when the estimated total exceeds the soft limit the trimming pass removes candidates
\* (neither a system message nor the last user message) earliest first and stops as soon as
\* the total is at most the soft limit or no candidate is left; the messages that remain keep
\* their order, context_trimmed is true iff a message was removed and context_trimmed_count
\* is the number removed
C14_TrimEarliestCandidatesUntilSoft ==
    pf_out.done =>
        LET p1 == AfterBlockPass
            out == pf_out.ret.data.messages
            md == pf_out.ret.data.metadata
            cands == TrimCandidates(p1)
            Prefix(n) == {cands[j] : j \in 1..n}
            TotalWithout(removed) == ENFORCEMENT_OVERHEAD_TOKENS + TokensOf(RemoveIndices(p1, removed))
        IN  /\ \E n \in 0..Len(cands) :
                   /\ out = RemoveIndices(p1, Prefix(n))
                   /\ n > 0 => TotalWithout(Prefix(n - 1)) > CONTEXT_SOFT_LIMIT_TOKENS
                   /\ n < Len(cands) => TotalWithout(Prefix(n)) <= CONTEXT_SOFT_LIMIT_TOKENS
                   /\ md.context_trimmed = (n > 0)
                   /\ md.context_trimmed_count = n
            /\ Cardinality({i \in DOMAIN out : out[i].role = "system"})
                   = Cardinality({i \in DOMAIN p1 : p1[i].role = "system"})
            /\ (\E i \in DOMAIN p1 : p1[i].role = "user") =>
                   \E i \in DOMAIN out :
                       /\ out[i].role = "user"
                       /\ \A j \in DOMAIN out : j > i => out[j].role # "user"
                       /\ \E k \in DOMAIN p1 :
                              /\ out[i] = p1[k]
                              /\ \A j \in DOMAIN p1 : j > k => p1[j].role # "user"

\* C14 happens: trimming stops with candidates left, after it has removed the first two
\* and stepped over a system message
C14_Witness ==
    /\ pf_out.done
    /\ pf_out.ret.data.metadata.context_trimmed_count = 2
    /\ Len(TrimCandidates(AfterBlockPass)) > 2
    /\ pf_in[1].role = "system"
    /\ pf_out.ret.data.messages[1] = pf_in[1]

\* C15: in the per-block pass a block is replaced by the duplicate stub if and only if its
\* token estimate exceeds the duplicate minimum and a block with the same text came earlier
\* in the request; duplicate_blocks_detected is the number of blocks replaced
C15_DuplicateStubAboveDupMin ==
    pf_out.done =>
        LET out == pf_out.ret.data.messages
            md == pf_out.ret.data.metadata
            repeated == {i \in DOMAIN pf_in :
                            /\ _estimate_tokens_from_text(pf_in[i].content) > CONTEXT_DUPLICATE_MIN_TOKENS
                            /\ \E j \in 1..(i - 1) : pf_in[j].content = pf_in[i].content}
        IN  /\ md.duplicate_blocks_detected = Cardinality(repeated)
            /\ ~md.context_trimmed =>
                   \A i \in DOMAIN pf_in : out[i].content = DuplicateStub <=> i \in repeated

(***************************************************************************)
(* Fast path and classifier answers (SpecClassify)                         *)
(***************************************************************************)
\* the last user messages of SpecClassify: empty, of 19 and 20 characters in one word, of 19
\* and 20 characters with spaces among them, a greeting and a longer request
LengthTexts ==
    {<<>>, <<"abcdefghijklmnopqrs">>, <<"abcdefghijklmnopqrst">>, <<"please", "review", "docs/">>,
     <<"please", "review", "this", "a">>, ShortText, LongText}

\* the requests of SpecClassify: no repo context, no session
ClassifyInputs == {SessionRequest(<<>>, text) : text \in LengthTexts}

\* what the classifier call gives in SpecClassify: a level, a level in lower case, text that
\* names no level, no text at all, or an exception (upstream error, timeout)
ClassifyAnswers ==
    Answers \cup {[error |-> FALSE, text |-> <<"maybe">>], [error |-> FALSE, text |-> <<>>]}

NextClassify ==
    \/ \E r \in Slots, in \in ClassifyInputs : served < MaxRequests /\ PreCall(r, in, 0)
    \/ \E r \in Slots, answer \in ClassifyAnswers : ClassifierReturn(r, answer)

SpecClassify == Init /\ [][NextClassify]_vars

\* C16: with no live override, a request whose last user message has fewer than 20
\* non-whitespace characters is classified SIMPLE without the cache or the classifier, and
\* one with 20 or more is not taken by the fast path: it goes to the cache and the classifier
C16_FastPathUnderTwentyCharacters ==
    \A r \in Entered :
        ("override_get" \in req[r].ran /\ ~req[r].override_applied) =>
            IF SumLen(req[r].user_message) < 20
            THEN /\ req[r].pc = "done"
                 /\ req[r].classification = "SIMPLE"
                 /\ req[r].ran \cap {"cache_get", "classifier_call"} = {}
            ELSE /\ "fast_path" \notin req[r].ran
                 /\ "cache_get" \in req[r].ran

\* C20: when the classifier call raises, or answers with text that names none of SIMPLE,
\* MODERATE, COMPLEX, the request is classified SIMPLE and routed to the cheap model; the
\* hook returns the request, with no synthetic response and no skip flag
C20_ClassifierFailureMeansSimple ==
    \A r \in Entered :
        LET answer == req[r].answer
            named == \E i \in DOMAIN answer.text :
                         UpperWord(answer.text[i]) \in {"SIMPLE", "MODERATE", "COMPLEX"}
        IN  (answer.given /\ (answer.error \/ ~named)) =>
                /\ req[r].pc = "done"
                /\ req[r].classification = "SIMPLE"
                /\ req[r].data.model = "claude-haiku-4-5"
                /\ req[r].data.metadata.routed_to_model = "claude-haiku-4-5"
                /\ req[r].data.metadata.complexity_classification = "SIMPLE"
                /\ ~req[r].data.skip_llm_call
                /\ req[r].data.response = NoResponse

\* C20 happens: the classifier call of a long request raises, that of another answers with
\* text that names no level, and both requests are returned for the cheap model
C20_Witness ==
    \E r, q \in Returned :
        /\ req[r].answer.given /\ req[r].answer.error
        /\ req[q].answer.given /\ req[q].answer.text = <<"maybe">>
        /\ req[r].data.model = "claude-haiku-4-5"
        /\ req[q].data.model = "claude-haiku-4-5"

(***************************************************************************)
(* The repository registry on its own (SpecRegistry)                       *)
(***************************************************************************)
\* the repository names and the paths given to the registry; /tmp/missing does not exist and
\* /tmp/x/../acme resolves to /tmp/acme
RegistryNames == {"acme", "beta", "gamma"}

RegistryPaths == {"/tmp/acme", "/tmp/beta", "/tmp/x/../acme", "/tmp/missing"}

\* no call of the registry yet
NoCall == [op |-> "none", repo |-> None, path |-> None, before |-> EmptyDict, registered |-> {}]

\* register(repo, path): pf_in is the call, with the registry as it was and the names
\* registered so far; pf_out tells whether it raised
Register(repo, path) ==
    /\ pf_in' = [op |-> "register", repo |-> repo, path |-> path, before |-> _repo_registry,
                 registered |-> pf_in.registered \cup
                                    (IF PathExists(ResolvePath(path)) THEN {repo} ELSE {})]
    /\ _repo_registry' = RepoRegistry_register(_repo_registry, repo, path)
    /\ pf_out' = [done |-> TRUE, raised |-> ~PathExists(ResolvePath(path)), ret |-> None]
    /\ UNCHANGED <<now, COMPLEXITY_OVERRIDE_DEFAULT_TTL_MINUTES, COMPLEXITY_OVERRIDE_MAX_TTL_MINUTES,
                   CLAUDE_METADATA, disk_fault, _complexity_override_cache, _session_repo_cache, _session_repo_history,
                   session_files, policy_cache, self_contract, _cache, side_cache, req, served>>

\* resolve(repo): pf_out holds what it returns
Resolve(repo) ==
    /\ pf_in' = [op |-> "resolve", repo |-> repo, path |-> None, before |-> _repo_registry,
                 registered |-> pf_in.registered]
    /\ pf_out' = [done |-> TRUE, raised |-> FALSE, ret |-> RepoRegistry_resolve(_repo_registry, repo)]
    /\ UNCHANGED <<now, COMPLEXITY_OVERRIDE_DEFAULT_TTL_MINUTES, COMPLEXITY_OVERRIDE_MAX_TTL_MINUTES,
                   CLAUDE_METADATA, disk_fault, _complexity_override_cache, _session_repo_cache, _session_repo_history,
                   session_files, _repo_registry, policy_cache, self_contract, _cache, side_cache,
                   req, served>>

InitRegistry ==
    /\ InitStores(5, 60)
    /\ pf_in = NoCall
    /\ pf_out = [done |-> FALSE, raised |-> FALSE, ret |-> None]

NextRegistry ==
    \/ \E repo \in RegistryNames, path \in RegistryPaths : Register(repo, path)
    \/ \E repo \in RegistryNames : Resolve(repo)

SpecRegistry == InitRegistry /\ [][NextRegistry]_vars

\* C19: register(r, p) with an existing path makes the registry map r to the resolved
\* absolute p, and changes nothing if it already did; with a path that does not exist it
\* raises and leaves the registry, a previous mapping of r included, as it was; resolve(r)
\* returns the path of the last successful register(r, .), and None for a name that was
\* never registered
C19_RegistryRegisterResolve ==
    pf_out.done =>
        LET exists == pf_in.path \in {"/tmp/acme", "/tmp/beta", "/tmp/x/../acme"}
            absolute == IF pf_in.path = "/tmp/x/../acme" THEN "/tmp/acme" ELSE pf_in.path
        IN  /\ (pf_in.op = "register" /\ exists) =>
                   /\ ~pf_out.raised
                   /\ pf_in.repo \in DOMAIN _repo_registry
                   /\ _repo_registry[pf_in.repo] = absolute
                   /\ \A other \in DOMAIN pf_in.before \ {pf_in.repo} :
                          other \in DOMAIN _repo_registry /\ _repo_registry[other] = pf_in.before[other]
                   /\ (pf_in.repo \in DOMAIN pf_in.before /\ pf_in.before[pf_in.repo] = absolute) =>
                          _repo_registry = pf_in.before
            /\ (pf_in.op = "register" /\ ~exists) =>
                   /\ pf_out.raised
                   /\ _repo_registry = pf_in.before
            /\ pf_in.op = "resolve" =>
                   /\ _repo_registry = pf_in.before
                   /\ pf_in.repo \in pf_in.registered => pf_out.ret = pf_in.before[pf_in.repo]
                   /\ pf_in.repo \notin pf_in.registered => pf_out.ret = None

\* C19 happens: a register with a path that does not exist raises and the mapping the name
\* had, stored from a path with a .. in it, is kept
C19_Witness ==
    /\ pf_out.done /\ pf_out.raised
    /\ pf_in.op = "register" /\ pf_in.repo = "acme" /\ pf_in.path = "/tmp/missing"
    /\ pf_in.before = _repo_registry
    /\ "acme" \in DOMAIN _repo_registry /\ _repo_registry["acme"] = "/tmp/acme"
    /\ "beta" \in DOMAIN _repo_registry

(***************************************************************************)
(* Repo context: the sources of repo and repo_root and what the hook       *)
(* leaves in the registry and the session store                            *)
(***************************************************************************)
\* the headers x-litellm-repo / x-litellm-repo-root a client may send
ContextHeaders ==
    {[NoHeaders EXCEPT !.repo = c.repo, !.repo_root = c.repo_root] :
        c \in {Unscoped, [repo |-> "beta", repo_root |-> "/tmp/beta"],
               [repo |-> "beta", repo_root |-> None], [repo |-> None, repo_root |-> "/tmp/beta"]}}

\* the repo / repo_root a client may put in the request metadata
ContextMetadata == {Unscoped, Scoped, RootOnly, [repo |-> "acme", repo_root |-> None]}

\* the CLAUDE_METADATA a process may be started with
ContextEnvironments ==
    {NoContext, [found |-> TRUE, repo |-> "beta", repo_root |-> "/tmp/beta"],
     [found |-> TRUE, repo |-> "beta", repo_root |-> None]}

\* the top-level system of a request: empty, or an appended LITELLM_CONTEXT marker
ContextSystems ==
    {<<>>,
     <<"<!--", "LITELLM_CONTEXT", "repo=acme", "repo_root=/tmp/acme", "-->">>,
     <<"<!--", "LITELLM_CONTEXT", "repo=beta", "repo_root=/tmp/beta", "-->">>,
     <<"<!--", "LITELLM_CONTEXT", "repo=acme", "-->">>}

\* the requests of SpecContext: chat and bootstrap requests of session s1 with each
\* combination of sources, and one request that reaches the classifier
ContextInputs ==
    {Request("client-model", "completion",
             ClientMetadata(request_type, md.repo, md.repo_root, SessionUser("s1"), None),
             headers, system, <<Msg("user", <<"Hello!">>)>>) :
        request_type \in {None, "repo_bootstrap"}, md \in ContextMetadata,
        headers \in ContextHeaders, system \in ContextSystems}
    \cup {PipelineRequest("completion", None, Scoped, SessionUser("s1"), None, "bare", LongText)}

InitContext ==
    /\ \E env \in ContextEnvironments : InitProcess(5, 60, env)
    /\ pf_in = <<>>
    /\ pf_out = NotApplied

NextContext ==
    \/ \E r \in Slots, in \in ContextInputs : served < MaxRequests /\ PreCall(r, in, 0)
    \/ \E r \in Slots, answer \in OverrideAnswers : ClassifierReturn(r, answer)

SpecContext == InitContext /\ [][NextContext]_vars

\* what the session store held for the session of request r when r entered the hook
SessionSupplies(r) ==
    LET sid == _extract_session_id(req[r].in.data.metadata.user_id)
        mem == _get_session_repo_context(req[r].seen.session.cache, sid, req[r].seen.t)
        disk == _load_repo_context_from_session_file(req[r].seen.session, sid, req[r].seen.t)
    IN  IF mem.ret.found THEN mem.ret ELSE disk.ret

\* the values the five sources supply to request r, highest precedence first; a marker
\* supplies each field it carries when perField, and only as a whole otherwise
Supplied(r, perField) ==
    LET in == req[r].in.data
        marker == IF perField
                  THEN [repo |-> LastPart(in.system, MarkerRepo),
                        repo_root |-> LastPart(in.system, MarkerRoot)]
                  ELSE extract_repo_context_from_system(in)
    IN  <<[repo |-> in.headers.repo, repo_root |-> in.headers.repo_root],
          [repo |-> in.metadata.repo, repo_root |-> in.metadata.repo_root],
          [repo |-> CLAUDE_METADATA.repo, repo_root |-> CLAUDE_METADATA.repo_root],
          [repo |-> marker.repo, repo_root |-> marker.repo_root],
          [repo |-> SessionSupplies(r).repo, repo_root |-> SessionSupplies(r).repo_root]>>

\* the sources that supply a value of repo, and of repo_root
SuppliersOf(sources) ==
    [repo |-> {i \in DOMAIN sources : ~Falsy(sources[i].repo)},
     repo_root |-> {i \in DOMAIN sources : ~Falsy(sources[i].repo_root)}]

\* each field some source supplies is resolved to the value of the first source supplying it
ResolvedByPrecedence(r, perField) ==
    LET sources == Supplied(r, perField)
        from == SuppliersOf(sources)
        First(S) == CHOOSE i \in S : \A j \in S : i <= j
    IN  /\ from.repo # {} => req[r].context.repo = sources[First(from.repo)].repo
        /\ from.repo_root # {} => req[r].context.repo_root = sources[First(from.repo_root)].repo_root

\* C17 as stated: repo and repo_root are each resolved to the value of the highest of
\* headers > request metadata > CLAUDE_METADATA > system-prompt marker > session store
\* that supplies one, a marker supplying each field it carries
C17_PrecedencePerField ==
    \A r \in Slots : req[r].pc # "idle" => ResolvedByPrecedence(r, TRUE)

\* C17: repo and repo_root are each resolved to the value of the highest of
\* headers > request metadata > CLAUDE_METADATA > system-prompt marker > session store
\* that supplies one, a marker supplying its values only when it carries both
C17_PrecedenceWholeMarker ==
    \A r \in Slots : req[r].pc # "idle" => ResolvedByPrecedence(r, FALSE)

\* a request with no header, metadata or marker context took its repo from CLAUDE_METADATA
\* and its repo_root from what an earlier bootstrap left in the session store
C17_Witness ==
    \E r \in Slots :
        /\ req[r].pc = "done"
        /\ req[r].in.data.headers = NoHeaders
        /\ req[r].in.data.metadata.repo = None /\ req[r].in.data.metadata.repo_root = None
        /\ req[r].in.data.system = <<>>
        /\ CLAUDE_METADATA.repo = "beta" /\ CLAUDE_METADATA.repo_root = None
        /\ SessionSupplies(r).repo = "acme" /\ SessionSupplies(r).repo_root = "/tmp/acme"
        /\ req[r].context = [repo |-> "beta", repo_root |-> "/tmp/acme"]

\* the registry after the hook maps the resolved repo of request r to its resolved root
RegistryHolds(r) ==
    /\ req[r].context.repo \in DOMAIN req[r].left.repos
    /\ req[r].left.repos[req[r].context.repo] = ResolvePath(req[r].context.repo_root)

\* the session store after the hook holds the resolved context of request r, in memory and on disk
SessionStoreHolds(r) ==
    LET sid == _extract_session_id(req[r].in.data.metadata.user_id)
        store == req[r].left.session
    IN  /\ sid \in DOMAIN store.cache
        /\ store.cache[sid].repo = req[r].context.repo
        /\ store.cache[sid].repo_root = req[r].context.repo_root
        /\ Sanitize(sid) \in DOMAIN store.files
        /\ store.files[Sanitize(sid)].repo = req[r].context.repo
        /\ store.files[Sanitize(sid)].repo_root = req[r].context.repo_root

\* the requests the hook has processed with a session id and both repo and repo_root resolved,
\* without a classifier call during which another request could have changed the stores
WithBothFields ==
    {r \in Slots : /\ req[r].pc = "done" /\ "classifier_call" \notin req[r].ran
                   /\ _extract_session_id(req[r].in.data.metadata.user_id) # None
                   /\ ~Falsy(req[r].context.repo) /\ ~Falsy(req[r].context.repo_root)}

\* C18: after the hook has processed a request with a session id for which both repo and
\* repo_root are present, whichever source supplied them, the registry maps repo to the
\* resolved repo_root and the session store holds {repo, repo_root} in memory and on disk
C18_RegistryAndSessionStoreUpdated ==
    \A r \in WithBothFields : RegistryHolds(r) /\ SessionStoreHolds(r)

(***************************************************************************)
(* Cancellation of a request that waits for the classifier                 *)
(***************************************************************************)
NextCancel ==
    \/ \E r \in Slots, in \in Inputs : served < MaxRequests /\ PreCall(r, in, 0)
    \/ \E r \in Slots, answer \in Answers : ClassifierReturn(r, answer)
    \/ \E r \in Slots : ClassifierCancelled(r)

SpecCancel == Init /\ [][NextCancel]_vars

\* the requests cancelled while they waited for the classifier
Cancelled == {r \in Slots : req[r].pc = "cancelled"}

\* C21: a request cancelled while it is suspended in the classifier call takes the classifier
\* error path: it is classified SIMPLE, routed to the cheap model and returned by the hook
C21_CancellationDefaultsToSimple ==
    \A r \in Cancelled :
        /\ req[r].classification = "SIMPLE"
        /\ req[r].data.model = MODEL_MAP("SIMPLE")
        /\ req[r].returned

\* C22: a request cancelled before the metadata stash leaves the override store, the
\* classification cache, the registry, the contract cache and the side cache as they were
\* when it entered the hook
C22_CancelledRequestLeavesStores ==
    \A r \in Cancelled :
        /\ req[r].left.overrides = req[r].seen.overrides
        /\ req[r].left.classifications = req[r].seen.classifications
        /\ req[r].left.repos = req[r].seen.repos
        /\ req[r].left.policy = req[r].seen.policy
        /\ req[r].left.side = req[r].seen.side

(***************************************************************************)
(* The metadata bundle and the post-call hook                              *)
(***************************************************************************)
\* the requests of SpecPost: chat requests without repo context and of two repositories,
\* short ones and ones that wait for the classifier, and one with no user message
PostInputs ==
    {PipelineRequest("completion", None, scope, <<>>, None, "bare", text) :
        scope \in {Unscoped, Scoped, [repo |-> "beta", repo_root |-> "/tmp/beta"]},
        text \in {ShortText, LongText}}
    \cup {Request("client-model", "completion", ClientMetadata(None, "acme", "/tmp/acme", <<>>, None),
                  NoHeaders, <<>>, <<Msg("assistant", <<"ok">>)>>)}

NextPost ==
    \/ \E r \in Slots, in \in PostInputs : served < MaxRequests /\ PreCall(r, in, 0)
    \/ \E r \in Slots, answer \in OverrideAnswers : ClassifierReturn(r, answer)
    \/ \E r \in Slots : LogSuccess(r)

SpecPost == Init /\ [][NextPost]_vars

\* the requests that have completed the routing stage
Routed == {r \in Slots : req[r].pc = "done" /\ "rewrite" \in req[r].ran}

\* the contract hash of request r's own repo_root, as injected into its system message,
\* and the empty hash when r has no repo_root
OwnContractHash(r) == IF req[r].repo_root = None \/ req[r].contract = None THEN "" ELSE req[r].contract

\* C23: the contract_hash and policy_enforced in the metadata bundle of a request, and in
\* its post-call telemetry, are those of the request's own repo_root (empty and "false"
\* without one), whatever other requests were processed before it or while it waited
C23_OwnContractInBundleAndTelemetry ==
    \A r \in Routed :
        LET own == OwnContractHash(r)
            enforced == IF own = "" THEN "false" ELSE "true"
        IN  /\ req[r].data.metadata.contract_hash = own
            /\ req[r].data.metadata.policy_enforced = enforced
            /\ req[r].post.called =>
                   /\ req[r].post.metadata.contract_hash = own
                   /\ req[r].post.metadata.policy_enforced = enforced

\* the span attribute names under which a metadata field may be recorded
AttrsFor(field) == {field, "litellm." \o field}

\* the span carries a value of the metadata field, under its own name or one given for it
Carries(attributes, field, also) == (AttrsFor(field) \cup also) \cap DOMAIN attributes # {}

\* C24: for every request that reaches the post-call hook exactly one litellm.request span
\* is emitted, and it contains request_id, routed_to_model, original_model_requested,
\* complexity_classification, contract_hash, exhaustion_risk and either "unscoped" or the
\* request's repo and repo_root
C24_OneCompleteSpanPerRequest ==
    \A r \in Slots :
        (req[r].pc = "done" /\ req[r].post.called) =>
            /\ Len(req[r].post.spans) = 1
            /\ req[r].post.spans[1].name = "litellm.request"
            /\ LET a == req[r].post.spans[1].attributes
               IN  /\ Carries(a, "request_id", {})
                   /\ Carries(a, "routed_to_model", {"gen_ai.request.model"})
                   /\ Carries(a, "original_model_requested", {"litellm.router.original_model"})
                   /\ Carries(a, "complexity_classification", {"litellm.classification"})
                   /\ Carries(a, "contract_hash", {})
                   /\ Carries(a, "exhaustion_risk", {})
                   /\ Carries(a, "repo", {})
                   /\ a["litellm.repo"] # "unscoped" => Carries(a, "repo_root", {})

(***************************************************************************)
(* Short-circuits: nothing runs after the synthetic response               *)
(***************************************************************************)
\* the stages of the hook that classify, rewrite the model and stash the metadata
RoutingStages ==
    {"override_get", "override_set", "override_cancel", "fast_path", "cache_get",
     "classifier_call", "rewrite", "stash"}

\* the requests the hook has answered itself: a synthetic response and the skip flag
ShortCircuited == {r \in Entered : req[r].data.skip_llm_call /\ req[r].data.response # NoResponse}

\* C25: a request with a synthetic response and the skip flag (bootstrap, fatal context
\* refusal, policy violation) has been returned with no later stage run: its model is the
\* client's, no classifier call was made, the override store, the classification cache and
\* the side cache are as they were when it entered
C25_NothingRunsAfterShortCircuit ==
    \A r \in ShortCircuited :
        /\ req[r].pc = "done"
        /\ req[r].data.response.finish_reason \in {"stop", "context_exhaustion", "policy_violation"}
        /\ req[r].ran \cap RoutingStages = {}
        /\ req[r].data.model = req[r].in.data.model
        /\ req[r].classification = None
        /\ req[r].left.overrides = req[r].seen.overrides
        /\ req[r].left.classifications = req[r].seen.classifications
        /\ req[r].left.side = req[r].seen.side

\* C25 happens: while a request waits for the classifier, a request of the same session
\* that has both an override command and a policy violation in its message is refused
C25_Witness ==
    /\ req[1].pc = "classify"
    /\ 2 \in ShortCircuited
    /\ req[2].data.response.finish_reason = "policy_violation"
    /\ req[2].in.data.messages[Len(req[2].in.data.messages)].content = OverrideViolationText

(***************************************************************************)
(* The session store on a failing disk                                     *)
(***************************************************************************)
\* the requests of SpecDisk: a bootstrap of session s1, and chat requests of s1 and of a
\* session whose id is not a file name, with and without a repo context of their own
DiskInputs ==
    {PipelineRequest("completion", request_type, scope, SessionUser(sid), None, "bare", ShortText) :
        request_type \in {None, "repo_bootstrap"}, scope \in {Unscoped, Scoped}, sid \in {"s1", "//"}}

NextDisk ==
    \/ \E r \in Slots, in \in DiskInputs : served < MaxSessionRequests /\ PreCall(r, in, 0)
    \/ \E fault \in DiskFaults \cup {None} : DiskFault(fault)
    \/ Restart

SpecDisk == Init /\ [][NextDisk]_vars

\* C26: no failure of a disk step of the session store (making the directory, testing for
\* the file, reading it, writing it) leaves async_pre_call_hook as an exception
C26_DiskFailureNeverPropagates ==
    \A r \in Slots : req[r].pc # "raised"

(***************************************************************************)
(* ClassificationCache: a cache of max_size CacheMaxSize and ttl CacheTtl  *)
(***************************************************************************)
\* max_size of the cache instance
CacheMaxSize == 2

\* how many steps the clock of SpecCache takes
MaxCacheTicks == 3

\* ttl of the cache instance, in seconds: two steps of the clock
CacheTtl == 2 * TickSeconds

\* the prompts looked up and stored
CachePrompts == {ShortText, LongText, ViolationText}

\* no call of the cache yet
NoCacheCall == [op |-> "none", prompt |-> <<>>, classification |-> None, before |-> <<>>, t |-> 0]

\* _cache.get(prompt): pf_in is the call with the cache as it was, pf_out what it returns
CacheGet(prompt) ==
    /\ pf_in' = [op |-> "get", prompt |-> prompt, classification |-> None, before |-> _cache, t |-> now]
    /\ \E got \in {ClassificationCache_get(_cache, prompt, now, CacheTtl)} :
           /\ _cache' = got.cache
           /\ pf_out' = [done |-> TRUE, ret |-> got.ret]
    /\ UNCHANGED <<now, COMPLEXITY_OVERRIDE_DEFAULT_TTL_MINUTES, COMPLEXITY_OVERRIDE_MAX_TTL_MINUTES,
                   CLAUDE_METADATA, disk_fault, _complexity_override_cache, _session_repo_cache,
                   _session_repo_history, session_files, _repo_registry, policy_cache, self_contract,
                   side_cache, req, served>>

\* _cache.set(prompt, classification)
CacheSet(prompt, classification) ==
    /\ pf_in' = [op |-> "set", prompt |-> prompt, classification |-> classification,
                 before |-> _cache, t |-> now]
    /\ _cache' = ClassificationCache_set(_cache, prompt, classification, now, CacheMaxSize)
    /\ pf_out' = [done |-> TRUE, ret |-> None]
    /\ UNCHANGED <<now, COMPLEXITY_OVERRIDE_DEFAULT_TTL_MINUTES, COMPLEXITY_OVERRIDE_MAX_TTL_MINUTES,
                   CLAUDE_METADATA, disk_fault, _complexity_override_cache, _session_repo_cache,
                   _session_repo_history, session_files, _repo_registry, policy_cache, self_contract,
                   side_cache, req, served>>

\* time.time() advances between two calls
CacheTick ==
    /\ now < MaxCacheTicks * TickSeconds
    /\ now' = now + TickSeconds
    /\ UNCHANGED <<COMPLEXITY_OVERRIDE_DEFAULT_TTL_MINUTES, COMPLEXITY_OVERRIDE_MAX_TTL_MINUTES,
                   CLAUDE_METADATA, disk_fault, _complexity_override_cache, _session_repo_cache,
                   _session_repo_history, session_files, _repo_registry, policy_cache, self_contract,
                   _cache, side_cache, req, served, pf_in, pf_out>>

InitCache ==
    /\ InitStores(5, 60)
    /\ pf_in = NoCacheCall
    /\ pf_out = [done |-> FALSE, ret |-> None]

NextCache ==
    \/ \E prompt \in CachePrompts : CacheGet(prompt)
    \/ \E prompt \in CachePrompts, classification \in {"SIMPLE", "COMPLEX"} :
           CacheSet(prompt, classification)
    \/ CacheTick

SpecCache == InitCache /\ [][NextCache]_vars

\* the entries of a cache
EntriesOf(cache) == {cache[i] : i \in DOMAIN cache}

\* the entries of a cache stored for a prompt
EntriesFor(cache, prompt) == {e \in EntriesOf(cache) : e.key = TakeChars(prompt, 500)}

\* C27: the cache never holds more than max_size entries (one per key); a set that finds it
\* full evicts an entry with the oldest timestamp and stores the new one; a get returns the
\* classification of an entry younger than the TTL and leaves the cache alone, and returns
\* nothing for an entry whose age is at least the TTL, which it deletes
C27_CacheBoundedEvictsOldestExpires ==
    /\ Len(_cache) <= CacheMaxSize
    /\ \A i, j \in DOMAIN _cache : _cache[i].key = _cache[j].key => i = j
    /\ pf_in.op = "set" =>
           LET before == EntriesOf(pf_in.before)
               same == EntriesFor(pf_in.before, pf_in.prompt)
               new == [key |-> TakeChars(pf_in.prompt, 500), classification |-> pf_in.classification,
                       timestamp |-> pf_in.t]
           IN  IF Len(pf_in.before) >= CacheMaxSize
               THEN \E old \in before :
                       /\ \A e \in before : old.timestamp <= e.timestamp
                       /\ EntriesOf(_cache) = ((before \ {old}) \ same) \cup {new}
               ELSE EntriesOf(_cache) = (before \ same) \cup {new}
    /\ pf_in.op = "get" =>
           LET same == EntriesFor(pf_in.before, pf_in.prompt)
               fresh == {e \in same : pf_in.t - e.timestamp < CacheTtl}
           IN  /\ same = {} => pf_out.ret = None /\ _cache = pf_in.before
               /\ fresh # {} => /\ \A e \in fresh : pf_out.ret = e.classification
                                /\ _cache = pf_in.before
               /\ (same # {} /\ fresh = {}) =>
                      /\ pf_out.ret = None
                      /\ EntriesOf(_cache) = EntriesOf(pf_in.before) \ same

\* C27 happens: a get finds an entry whose age is exactly the TTL in a full cache, returns
\* nothing and deletes it
C27_Witness ==
    /\ pf_in.op = "get"
    /\ Len(pf_in.before) = CacheMaxSize
    /\ \E e \in EntriesFor(pf_in.before, pf_in.prompt) : pf_in.t - e.timestamp = CacheTtl
    /\ pf_out.ret = None
    /\ Len(_cache) = CacheMaxSize - 1

(***************************************************************************)
(* Request capture: the history that keeps a request from being captured   *)
(* twice                                                                   *)
(***************************************************************************)
_CAPTURE_HISTORY_SIZE == 2048

\* the size of the history in the instances checked
CaptureHistorySize == 2

\* the request ids captured
CaptureIds == {"id1", "id2", "id3", "id4", "id5"}

\* _captured_request_ids and _capture_order when the module is loaded
NoCaptures == [ids |-> {}, order |-> <<>>]

\* a mutant of _mark_request_captured: the oldest id leaves the queue but stays in the set
MarkRequestCapturedKeepsId(history, request_id, size) ==
    IF request_id \in history.ids THEN [ret |-> FALSE, history |-> history]
    ELSE LET added == [ids |-> history.ids \cup {request_id},
                       order |-> Append(history.order, request_id)]
         IN  IF Len(added.order) > size
             THEN [ret |-> TRUE, history |-> [ids |-> added.ids, order |-> Tail(added.order)]]
             ELSE [ret |-> TRUE, history |-> added]

\* _mark_request_captured with a history of the given size: what it returns and the history after
_mark_request_captured(history, request_id, size) ==
    IF request_id \in history.ids THEN [ret |-> FALSE, history |-> history]
    ELSE LET added == [ids |-> history.ids \cup {request_id},
                       order |-> Append(history.order, request_id)]
         IN  IF Len(added.order) > size
             THEN [ret |-> TRUE, history |-> [ids |-> added.ids \ {Head(added.order)},
                                             order |-> Tail(added.order)]]
             ELSE [ret |-> TRUE, history |-> added]

\* capture_request_snapshot: the history after, and whether the snapshot file was written
\* (writable: the capture directory and the file can be written)
capture_request_snapshot(history, request_id, size, writable) ==
    LET marked == _mark_request_captured(history, request_id, size)
    IN  [ret |-> marked.ret, history |-> marked.history, written |-> marked.ret /\ writable]

\* a request is captured: pf_in is the call with the history as it was, pf_out the history
\* after it and what the call did
CaptureRequestSnapshot(request_id, writable) ==
    /\ pf_in' = [op |-> "capture", request_id |-> request_id, before |-> pf_out.history]
    /\ \E did \in {capture_request_snapshot(pf_out.history, request_id, CaptureHistorySize, writable)} :
           pf_out' = [done |-> TRUE, ret |-> did.ret, history |-> did.history, written |-> did.written]
    /\ UNCHANGED <<now, COMPLEXITY_OVERRIDE_DEFAULT_TTL_MINUTES, COMPLEXITY_OVERRIDE_MAX_TTL_MINUTES,
                   CLAUDE_METADATA, disk_fault, _complexity_override_cache, _session_repo_cache,
                   _session_repo_history, session_files, _repo_registry, policy_cache, self_contract,
                   _cache, side_cache, req, served>>

InitCapture ==
    /\ InitStores(5, 60)
    /\ pf_in = [op |-> "none", request_id |-> None, before |-> NoCaptures]
    /\ pf_out = [done |-> FALSE, ret |-> FALSE, history |-> NoCaptures, written |-> FALSE]

NextCapture == \E request_id \in CaptureIds, writable \in BOOLEAN :
                   CaptureRequestSnapshot(request_id, writable)

SpecCapture == InitCapture /\ [][NextCapture]_vars

\* the ids in a queue
QueuedIds(order) == {order[i] : i \in DOMAIN order}

\* C28: the history never holds more ids than its size, the id set and the queue hold the same
\* ids (each once), an id still in the history is reported as captured already (False, nothing
\* written, history unchanged), and a new id enters at the end of the queue, pushing out the
\* oldest id when the history is full
C28_CaptureHistoryBoundedAndDeduplicating ==
    LET history == pf_out.history
        before == pf_in.before
    IN  /\ Len(history.order) <= CaptureHistorySize
        /\ Cardinality(history.ids) <= CaptureHistorySize
        /\ history.ids = QueuedIds(history.order)
        /\ \A i, j \in DOMAIN history.order : history.order[i] = history.order[j] => i = j
        /\ pf_in.op = "capture" =>
               IF pf_in.request_id \in QueuedIds(before.order)
               THEN ~pf_out.ret /\ ~pf_out.written /\ history = before
               ELSE /\ pf_out.ret
                    /\ history.order = IF Len(before.order) = CaptureHistorySize
                                        THEN Append(Tail(before.order), pf_in.request_id)
                                        ELSE Append(before.order, pf_in.request_id)

\* C28 happens: a new id is captured while the history is full; the oldest id leaves both
\* the queue and the set
C28_Witness ==
    /\ pf_in.op = "capture"
    /\ Len(pf_in.before.order) = CaptureHistorySize
    /\ pf_in.request_id \notin pf_in.before.ids
    /\ pf_out.ret /\ pf_out.written
    /\ Head(pf_in.before.order) \notin pf_out.history.ids
    /\ pf_in.request_id \in pf_out.history.ids

(***************************************************************************)
(* The classifier's own request and the end of every invocation            *)
(* (SpecRecursion)                                                         *)
(***************************************************************************)
\* the classifier's own request as classify_with_haiku tags it (line 1518), with a prompt the
\* fast path does not take, and the same tagged in litellm_params.metadata
TaggedInputs ==
    {PipelineRequest("completion", "classification", scope, <<>>, None, "bare", text) :
        scope \in {Unscoped, Scoped}, text \in {LongText, ShortText}}
    \cup {[in EXCEPT !.data.lp_request_type = "classification"] :
              in \in {PipelineRequest("acompletion", None, Unscoped, <<>>, None, "bare", LongText)}}

\* client requests that reach the classifier, the cache or the fast path
UntaggedInputs ==
    {PipelineRequest("completion", None, scope, <<>>, None, shape, text) :
        scope \in {Unscoped, Scoped}, shape \in {"bare", "full"}, text \in {LongText, ShortText}}

NextRecursion ==
    \/ \E r \in Slots, in \in TaggedInputs \cup UntaggedInputs :
           served < MaxRequests /\ PreCall(r, in, 0)
    \/ \E r \in Slots, answer \in Answers : ClassifierReturn(r, answer)

\* the classifier call of every waiting request ends: it answers, or raises when the host's
\* timeout expires
SpecRecursion ==
    Init /\ [][NextRecursion]_vars
         /\ \A r \in Slots : WF_vars(\E answer \in Answers : ClassifierReturn(r, answer))

\* the slots that hold a request tagged request_type=classification
Tagged ==
    {r \in Entered : \/ req[r].in.data.metadata.request_type = "classification"
                     \/ req[r].in.data.lp_request_type = "classification"}

\* C29: a request tagged request_type=classification never issues a classifier call (so no
\* classifier call is made on behalf of a classifier call: depth at most 1), a request that
\* has had the answer of its classifier call issues no second one, and every invocation of
\* the hook that waits for the classifier comes to its end
C29_NoRecursionAndTermination ==
    /\ [](\A r \in Tagged : req[r].pc # "classify" /\ "classifier_call" \notin req[r].ran)
    /\ [](\A r \in Entered : req[r].answer.given => req[r].pc = "done")
    /\ \A r \in Slots : (req[r].pc = "classify") ~> (req[r].pc = "done")

\* C29 happens: while a request waits for its classifier call, a tagged request with a prompt
\* of 20 characters or more is processed and returned without a classifier call
C29_Witness ==
    /\ req[1].pc = "classify"
    /\ 2 \in Tagged
    /\ req[2].pc = "done"
    /\ TextLen(extract_user_message(req[2].in.data)) >= 20
    /\ "classifier_call" \notin req[2].ran

ReturnedTotal == ENFORCEMENT_OVERHEAD_TOKENS + TokensOf(pf_out.ret.data.messages)

\* C31: when the guard does not refuse, exhaustion_risk is 'high' iff the total of the
\* messages it leaves is at least the soft limit, 'medium' iff it is at least 0.8 of the soft
\* limit and below it, 'low' otherwise, and context_tokens_estimated is that total
C31_RiskLevelByTotal ==
    (pf_out.done /\ ~pf_out.ret.refused) =>
        LET md == pf_out.ret.data.metadata
            total == ReturnedTotal
        IN  /\ md.context_tokens_estimated = total
            /\ md.exhaustion_risk \in {"low", "medium", "high"}
            /\ md.exhaustion_risk = "high" <=> total >= CONTEXT_SOFT_LIMIT_TOKENS
            /\ md.exhaustion_risk = "medium" <=>
                   (5 * total >= 4 * CONTEXT_SOFT_LIMIT_TOKENS /\ total < CONTEXT_SOFT_LIMIT_TOKENS)
            /\ md.exhaustion_risk = "low" <=> 5 * total < 4 * CONTEXT_SOFT_LIMIT_TOKENS

\* C31 happens: a total of exactly 0.8 of the soft limit is medium
C31_Witness ==
    /\ pf_out.done /\ ~pf_out.ret.refused
    /\ 5 * ReturnedTotal = 4 * CONTEXT_SOFT_LIMIT_TOKENS
    /\ pf_out.ret.data.metadata.exhaustion_risk = "medium"

\* the messages the trimming pass has removed: the first context_trimmed_count candidates
TrimmedMessages ==
    LET p1 == AfterBlockPass
        cands == TrimCandidates(p1)
        n == pf_out.ret.data.metadata.context_trimmed_count
    IN  RemoveIndices(p1, (DOMAIN p1) \ {cands[j] : j \in 1..n})

\* C37: on every return of the guard, refusal or not, context_tokens_estimated is the
\* overhead plus the estimates of exactly the messages left in the request, and it is the
\* total of the per-block pass less the estimate of each removed message, taken once
C37_TotalIsSumOfRemaining ==
    pf_out.done =>
        LET md == pf_out.ret.data.metadata
        IN  /\ md.context_tokens_estimated = ReturnedTotal
            /\ md.context_tokens_estimated =
                   ENFORCEMENT_OVERHEAD_TOKENS + TokensOf(AfterBlockPass) - TokensOf(TrimmedMessages)
            /\ Len(pf_out.ret.data.messages) = Len(pf_in) - md.context_trimmed_count

\* C37 happens: a refusal after a duplicate has been replaced and messages have been trimmed
C37_Witness ==
    /\ pf_out.done
    /\ pf_out.ret.data.metadata.context_trimmed_count >= 1
    /\ \E i \in DOMAIN AfterBlockPass : AfterBlockPass[i].content \in {DuplicateStub, BlockStub}
    /\ TokensOf(TrimmedMessages) > 0
    /\ pf_out.ret.data.metadata.context_tokens_estimated = ReturnedTotal

\* the messages of a request that the trimming pass never removes
Protected(messages) ==
    {i \in DOMAIN messages :
        \/ messages[i].role = "system"
        \/ messages[i].role = "user" /\ \A j \in DOMAIN messages : j > i => messages[j].role # "user"}

Injected == {r \in Entered : "inject" \in req[r].ran}

\* the context guard intervened on the request in slot r
GuardIntervened(r) ==
    LET md == req[r].data.metadata
    IN  \/ md.context_trimmed
        \/ md.duplicate_blocks_detected > 0
        \/ md.large_blocks_suppressed > 0
        \/ md.exhaustion_risk \in {"medium", "high"}

\* the repo of the request in slot r is in the ledger enforcement set
InLedgerSet(r) ==
    LET repo == req[r].data.metadata.repo
    IN  ~Falsy(repo) /\ repo # "unscoped" /\ (LEDGER_ENFORCEMENT_APPLY_ALL \/ repo \in LEDGER_ENFORCEMENT_REPOS)

\* C32: the enforcement system message of a request starts with the ledger reminder, and
\* its metadata carries ledger_alert 'context_guard', exactly when its repo is in the ledger
\* enforcement set and the context guard intervened on it; when the guard did not intervene
\* no reminder is prepended
C32_ReminderExactlyWhenGuardIntervened ==
    \A r \in Injected :
        LET reminded == req[r].data.system # <<>> /\ req[r].data.system[1] = "LEDGER_REMINDER"
            alerted == req[r].data.metadata.ledger_alert = "context_guard"
        IN  /\ reminded <=> (InLedgerSet(r) /\ GuardIntervened(r))
            /\ alerted <=> (InLedgerSet(r) /\ GuardIntervened(r))

(***************************************************************************)
(* Expiry of an override (SpecOverride)                                    *)
(***************************************************************************)
\* the slots whose request found, at the lookup of the override stage, an entry of its
\* session whose expires lies before the time of the lookup
FoundExpired ==
    {r \in Entered :
        /\ "override_get" \in req[r].ran
        /\ req[r].session_id # None
        /\ req[r].session_id \in DOMAIN req[r].read.overrides
        /\ req[r].read.overrides[req[r].session_id].expires < req[r].read.t}

\* C33: a request that looks up the override of its session after the entry's expires gets
\* no override: the entry is removed from the store, the classification comes from the fast
\* path, the cache or the classifier, and the bundle says no override is active; an entry
\* found live again has been created by a set command after the expiry
C33_ExpiredOverrideNeverApplied ==
    /\ \A r \in FoundExpired :
           /\ ~req[r].override_applied
           /\ req[r].session_id \notin DOMAIN req[r].left.overrides
           /\ req[r].ran \cap {"fast_path", "cache_get"} # {}
           /\ req[r].pc = "done" =>
                  /\ req[r].data.metadata.complexity_override_active = "false"
                  /\ req[r].data.metadata.complexity_override_remaining_seconds = 0
    /\ \A r \in Entered :
           req[r].override_applied =>
               LET entry == req[r].read.overrides[req[r].session_id]
               IN  /\ req[r].classification = entry.complexity
                   /\ entry.expires >= req[r].read.t
                   /\ entry.created + entry.ttl_minutes * 60 >= req[r].read.t

\* C33 happens: a long message of the session arrives after the override of the session has
\* expired, and goes to the classifier
C33_Witness ==
    \E r \in FoundExpired :
        /\ req[r].user_message = LongText
        /\ req[r].seen.overrides[req[r].session_id].complexity = "COMPLEX"
        /\ "classifier_call" \in req[r].ran
        /\ req[r].session_id \notin DOMAIN _complexity_override_cache

(***************************************************************************)
(* The session store over hours and restarts (SpecSession)                 *)
(***************************************************************************)
\* a request with the repo and repo_root of another repository
ScopedBeta == [repo |-> "beta", repo_root |-> "/tmp/beta"]

\* the requests of SpecSession: a bootstrap of session s1, and chat requests of s1 with no
\* repo context, with a repo_root only and with another repository of their own
SessionStoreInputs ==
    {PipelineRequest("completion", "repo_bootstrap", Scoped, SessionUser("s1"), None, "bare", ShortText)}
    \cup {PipelineRequest("completion", None, scope, SessionUser("s1"), None, "bare", ShortText) :
              scope \in {Unscoped, RootOnly, ScopedBeta}}

\* the time that passes between two requests: past the TTL of a memory entry, past the TTL
\* of a session file
SessionSteps == {SESSION_CACHE_TTL_SECONDS + 1, SESSION_FILE_TTL_SECONDS + 1}

\* hours pass between two requests
Elapse(seconds) ==
    /\ now <= SESSION_CACHE_TTL_SECONDS + 1
    /\ now' = now + seconds
    /\ UNCHANGED <<COMPLEXITY_OVERRIDE_DEFAULT_TTL_MINUTES, COMPLEXITY_OVERRIDE_MAX_TTL_MINUTES,
                   CLAUDE_METADATA, disk_fault, _complexity_override_cache, _session_repo_cache,
                   _session_repo_history, session_files, _repo_registry, policy_cache, self_contract,
                   _cache, side_cache, req, served, pf_in, pf_out>>

NextSession ==
    \/ \E r \in Slots, in \in SessionStoreInputs : served < MaxSessionRequests /\ PreCall(r, in, 0)
    \/ \E seconds \in SessionSteps : Elapse(seconds)
    \/ \E fault \in {"exists", "read", None} : DiskFault(fault)
    \/ Restart

SpecSession == Init /\ [][NextSession]_vars

\* the chat requests of a session that found no live entry of the session in memory, and a
\* session file with repo and repo_root on a disk that works
FoundOnDisk ==
    {r \in Entered :
        /\ req[r].in.data.metadata.request_type = None
        /\ req[r].session_id # None
        /\ req[r].seen.session.fault = None
        /\ \/ req[r].session_id \notin DOMAIN req[r].seen.session.cache
           \/ req[r].seen.session.cache[req[r].session_id].expires < req[r].seen.t
        /\ Sanitize(req[r].session_id) \in DOMAIN req[r].seen.session.files}

\* the chat requests of a session that found a live entry of the session in memory
FoundInMemory ==
    {r \in Entered :
        /\ req[r].in.data.metadata.request_type = None
        /\ req[r].session_id # None
        /\ req[r].session_id \in DOMAIN req[r].seen.session.cache
        /\ req[r].seen.session.cache[req[r].session_id].expires >= req[r].seen.t}

\* C34: a request that finds no live memory entry of its session and a session file with
\* repo and repo_root gets the file's binding, whatever the age of the file, and a file older
\* than SESSION_FILE_TTL is rewritten; when the binding is applied to the request the memory
\* entry is created anew with a full TTL; a request that finds a live memory entry is
\* resolved from it and the disk is neither read nor written, whatever state it is in
C34_FileBindingRefillsMemory ==
    /\ \A r \in FoundOnDisk :
           LET sid == req[r].session_id
               file == req[r].seen.session.files[Sanitize(sid)]
               own == req[r].in.data.metadata
               after == req[r].left.session
               stale == req[r].seen.t - file.mtime > SESSION_FILE_TTL_SECONDS
           IN  /\ req[r].pc # "raised"
               /\ req[r].context.repo = IF own.repo = None THEN file.repo ELSE own.repo
               /\ req[r].context.repo_root = IF own.repo_root = None THEN file.repo_root
                                             ELSE own.repo_root
               /\ after.files[Sanitize(sid)].repo = file.repo
               /\ after.files[Sanitize(sid)].repo_root = file.repo_root
               /\ stale => after.files[Sanitize(sid)].mtime = req[r].seen.t
               /\ (own.repo = None \/ own.repo_root = None) =>
                      /\ sid \in DOMAIN after.cache
                      /\ after.cache[sid] = [repo |-> file.repo, repo_root |-> file.repo_root,
                                             expires |-> req[r].seen.t + SESSION_CACHE_TTL_SECONDS]
    /\ \A r \in FoundInMemory :
           LET entry == req[r].seen.session.cache[req[r].session_id]
               own == req[r].in.data.metadata
           IN  /\ req[r].pc # "raised"
               /\ req[r].context.repo = IF own.repo = None THEN entry.repo ELSE own.repo
               /\ req[r].context.repo_root = IF own.repo_root = None THEN entry.repo_root
                                             ELSE own.repo_root
               /\ req[r].left.session.files = req[r].seen.session.files
               /\ req[r].left.session.cache = req[r].seen.session.cache

\* C34 happens: a request with no context of its own arrives when the memory entry of its
\* session has expired and the session file is older than its TTL; it gets the binding of
\* the file, the file is rewritten and the memory entry is created anew
C34_Witness ==
    \E r \in FoundOnDisk :
        /\ req[r].in.data.metadata.repo = None
        /\ req[r].session_id \in DOMAIN req[r].seen.session.cache
        /\ req[r].seen.t - req[r].seen.session.files["s1"].mtime > SESSION_FILE_TTL_SECONDS
        /\ req[r].context = [repo |-> "acme", repo_root |-> "/tmp/acme"]
        /\ session_files["s1"].mtime = req[r].seen.t
        /\ _session_repo_cache["s1"].expires = req[r].seen.t + SESSION_CACHE_TTL_SECONDS

(***************************************************************************)
(* Pure function under check: get_repo_root_from_request and the           *)
(* authorization header (SpecAuth)                                         *)
(***************************************************************************)
\* the tokens of an authorization header: a key, a key with a repo in front, with nothing in
\* front of the separator, with nothing after it, and with a second separator in the key
AuthTokens ==
    {<<"sk-key">>, <<"beta", "::", "sk-key">>, <<"::", "sk-key">>, <<"beta", "::">>,
     <<"beta", "::", "sk", "::", "key">>}

\* the headers of a request: none, or one authorization header under either spelling of
\* its name, with a scheme or without
AuthHeaders ==
    {NoHeaders}
    \cup {[NoHeaders EXCEPT !.authorization = [scheme |-> scheme, token |-> token]] :
              scheme \in {None, "Bearer"}, token \in AuthTokens}
    \cup {[NoHeaders EXCEPT !.Authorization = [scheme |-> scheme, token |-> token]] :
              scheme \in {None, "Bearer"}, token \in AuthTokens}

\* the requests of SpecAuth, as they reach line 1760: with and without a repo and a repo_root
\* from another source
AuthInputs ==
    {Request("client-model", "completion",
             ClientMetadata(None, scope.repo, scope.repo_root, <<>>, None),
             headers, <<>>, <<Msg("user", ShortText)>>).data :
        scope \in {Unscoped, RootOnly, Scoped, [repo |-> "acme", repo_root |-> None]},
        headers \in AuthHeaders}

\* get_repo_root_from_request is applied to the request of pf_in
ApplyAuth ==
    /\ ~pf_out.done
    /\ pf_out' = [done |-> TRUE, ret |-> get_repo_root_from_request(pf_in, EmptyDict)]
    /\ UNCHANGED <<now, COMPLEXITY_OVERRIDE_DEFAULT_TTL_MINUTES, COMPLEXITY_OVERRIDE_MAX_TTL_MINUTES,
                   CLAUDE_METADATA, disk_fault, _complexity_override_cache, _session_repo_cache,
                   _session_repo_history, session_files, _repo_registry, policy_cache, self_contract,
                   _cache, side_cache, req, served, pf_in>>

InitAuth ==
    /\ InitStores(5, 60)
    /\ pf_in \in AuthInputs
    /\ pf_out = NotApplied

NextAuth == ApplyAuth

SpecAuth == InitAuth /\ [][NextAuth]_vars

\* the authorization headers of a request, under either spelling of the name
SentAuthorization(headers) ==
    {h \in {headers.authorization, headers.Authorization} : h.scheme # None \/ h.token # <<>>}

\* the part of a token before its first separator and the part after it
TokenPrefix(token) ==
    LET first == CHOOSE i \in DOMAIN token : token[i] = "::" /\ \A j \in 1..(i - 1) : token[j] # "::"
    IN  SubSeq(token, 1, first - 1)

TokenSuffix(token) ==
    LET first == CHOOSE i \in DOMAIN token : token[i] = "::" /\ \A j \in 1..(i - 1) : token[j] # "::"
    IN  SubSeq(token, first + 1, Len(token))

\* C35: when the token of the authorization header contains '::', the prefix becomes the
\* repo only if no repo was resolved from another source, and the authorization header the
\* request leaves with is the scheme and the token after the separator; a token without
\* '::' leaves headers and repo as they were
C35_TokenPrefixIsRepoAndIsStripped ==
    pf_out.done =>
        \A sent \in SentAuthorization(pf_in.headers) :
            LET out == pf_out.ret.data
            IN  IF \E i \in DOMAIN sent.token : sent.token[i] = "::"
                THEN /\ out.metadata.repo =
                            IF ~Falsy(pf_in.metadata.repo) THEN pf_in.metadata.repo
                            ELSE IF TokenPrefix(sent.token) # <<>> THEN TokenPrefix(sent.token)[1]
                            ELSE pf_in.metadata.repo
                     /\ SentAuthorization(out.headers) =
                            {[scheme |-> sent.scheme, token |-> TokenSuffix(sent.token)]}
                ELSE /\ out.headers = pf_in.headers
                     /\ out.metadata.repo = pf_in.metadata.repo

(***************************************************************************)
(* The side cache between the two hooks (SpecPost)                         *)
(***************************************************************************)
\* the keys of the metadata bundle
BundleFields ==
    {"environment", "complexity_classification", "original_model_requested", "routed_to_model",
     "router", "prompt_length", "repo", "repo_root", "contract_hash", "policy_enforced",
     "request_id", "ledger_alert", "ledger_reminder_active", "complexity_override_active",
     "complexity_override_remaining_seconds"}

\* the side-cache key of the request in slot r, from the messages it leaves the hook with
SideKey(r) == TakeChars(extract_user_message(req[r].data), 200)

\* a stashed value is the bundle the pre-call hook has put into the metadata of request r
IsBundleOf(value, r) ==
    /\ DOMAIN value = BundleFields
    /\ value.router = "complexity_router_v2"
    /\ \A f \in BundleFields \ {"router"} : value[f] = req[r].data.metadata[f]

\* the slots whose request has stashed its bundle
Stashed == {r \in Returned : "stash" \in req[r].ran}

\* C36: as a request leaves the pre-call hook, its own bundle lies in the side cache under
\* the first 200 characters of its last user message, with a lifetime of 300 seconds,
\* whatever was stashed under that key before (last write wins); the post-call hook, given
\* the messages the request left the pre-call hook with, looks under the same key and finds
\* a bundle there, and for a request handled alone it is the very bundle its own pre-call
\* hook has stashed
C36_SameKeyLastWriteWins ==
    /\ \A r \in Stashed :
           /\ SideKey(r) \in DOMAIN req[r].left.side
           /\ IsBundleOf(req[r].left.side[SideKey(r)].value, r)
           /\ req[r].left.side[SideKey(r)].expires = req[r].left.t + 300
    /\ \A r \in Stashed :
           req[r].post.called =>
               /\ Len(req[r].post.stored_metadata) = 1
               /\ DOMAIN req[r].post.stored_metadata[1] = BundleFields
               /\ served = 1 => IsBundleOf(req[r].post.stored_metadata[1], r)

\* C36 happens: two requests with the same last user message, of two repositories, have
\* stashed their bundles; the side cache holds the bundle of the one that came back from the
\* classifier last, and the post-call hook of the other retrieves that one
C36_Witness ==
    /\ Stashed = Slots
    /\ SideKey(1) = SideKey(2)
    /\ req[1].data.metadata.repo # req[2].data.metadata.repo
    /\ req[2].left.side[SideKey(2)] = side_cache[SideKey(2)]
    /\ IsBundleOf(side_cache[SideKey(1)].value, 2)
    /\ req[1].post.called
    /\ IsBundleOf(req[1].post.stored_metadata[1], 2)

(***************************************************************************)
(* Overrides of two sessions (SpecIsolation)                               *)
(***************************************************************************)
\* the sessions of SpecIsolation; <<>> is the user_id of a client without a session
IsolationUsers == {SessionUser("s1"), SessionUser("s2"), <<>>}

\* what the clients of SpecIsolation send: set commands with and without a duration, a cancel
\* command and a message the classifier has to rate
IsolationTexts ==
    {<<"use", "opus", "for", "1", "minutes">>, <<"USE", "sonnet">>, <<"CANCEL", "override">>,
     LongText}

\* how many requests a behaviour of SpecIsolation accepts
MaxIsolationRequests == 2

IsolationInputs ==
    {SessionRequest(user_id, text) : user_id \in IsolationUsers, text \in IsolationTexts}

\* The requests of two sessions and of a client without one arrive one after the other, as
\* in SpecOverride, and the clock moves on between them.
NextIsolation ==
    \/ \E r \in Slots, in \in IsolationInputs, drift \in ClockSteps :
           served < MaxIsolationRequests /\ NoneInFlight /\ PreCall(r, in, drift)
    \/ \E r \in Slots, answer \in OverrideAnswers : ClassifierReturn(r, answer)
    \/ Tick

SpecIsolation == Init /\ [][NextIsolation]_vars

\* the entry of session sid that _get_complexity_override would answer from at time t:
\* {} when there is none or it has expired
Effective(store, sid, t) == IF Live(store, sid, t) THEN {store[sid]} ELSE {}

\* an override store with the entries of every session but sid taken out
OwnOnly(store, sid) == [s \in DOMAIN store \cap {sid} |-> store[s]]

\* what the hook decides for a request (frame or locals w)
Decision(w) ==
    [classification |-> w.classification, model |-> w.data.model,
     routed_to_model |-> w.data.metadata.routed_to_model,
     override_applied |-> w.override_applied,
     override_remaining_seconds |-> w.override_remaining_seconds, awaiting |-> w.awaiting]

\* the request that arrives in slot r in this step is decided as it would be with the
\* entries of all other sessions taken out of the override store
DecidedFromOwnEntry(r) ==
    \E drift \in ClockSteps :
        With(NewFrame(req'[r].in, drift), LAMBDA enters :
        With(Locals(HookToAwait(enters)), LAMBDA actual :
        With(HookToAwait([enters EXCEPT !.overrides = OwnOnly(@, req'[r].session_id)]),
        LAMBDA alone :
            actual = req'[r] /\ Decision(alone) = Decision(actual))))

\* a request without a session id: the store is left as it is and no override is applied
UntouchedBySessionless(r) ==
    /\ _complexity_override_cache' = _complexity_override_cache
    /\ ~req'[r].override_applied
    /\ req'[r].ran \cap {"override_set"} = {}
    /\ req'[r].ran \cap {"fast_path", "cache_get"} # {}

\* C39 as stated: a step of a request changes no entry of the override store but that of the
\* request's own session, and the request is classified and routed as it would be with no
\* entry of another session in the store; a request without a session id leaves the store
\* as it is and is never routed by an override
C39_OverridesIsolatedPerSession ==
    [][\A r \in Slots :
           Arrives(r) =>
               /\ \A sid \in (DOMAIN _complexity_override_cache \cup DOMAIN _complexity_override_cache')
                              \ {req'[r].session_id} :
                      /\ sid \in DOMAIN _complexity_override_cache
                      /\ sid \in DOMAIN _complexity_override_cache'
                      /\ _complexity_override_cache'[sid] = _complexity_override_cache[sid]
               /\ DecidedFromOwnEntry(r)
               /\ req'[r].session_id = None => UntouchedBySessionless(r)
      ]_vars

\* C39, amended: a step of a request changes no live entry of another session (an expired
\* entry of another session may be purged by a set command), and the request is classified
\* and routed as it would be with no entry of another session in the store; a request
\* without a session id leaves the store as it is and is never routed by an override
C39_LiveOverridesIsolatedPerSession ==
    [][\A r \in Slots :
           Arrives(r) =>
               /\ \A sid \in (DOMAIN _complexity_override_cache \cup DOMAIN _complexity_override_cache')
                              \ {req'[r].session_id} :
                      /\ Effective(_complexity_override_cache', sid, now')
                             = Effective(_complexity_override_cache, sid, now')
                      /\ sid \in DOMAIN _complexity_override_cache' =>
                             /\ sid \in DOMAIN _complexity_override_cache
                             /\ _complexity_override_cache'[sid] = _complexity_override_cache[sid]
               /\ DecidedFromOwnEntry(r)
               /\ req'[r].session_id = None => UntouchedBySessionless(r)
      ]_vars

\* C39 happens: while the override of session s1 is live, a request of session s2 sets an
\* override of another tier; the entry of s1 is left as it was and the request of s2 is
\* routed by its own
C39_Witness ==
    \E q \in Returned :
        /\ req[q].session_id = "s2"
        /\ "override_set" \in req[q].ran
        /\ Live(req[q].seen.overrides, "s1", req[q].left.t)
        /\ "s1" \in DOMAIN req[q].left.overrides
        /\ req[q].left.overrides["s1"] = req[q].seen.overrides["s1"]
        /\ req[q].override_applied
        /\ req[q].classification = req[q].left.overrides["s2"].complexity
        /\ req[q].classification # req[q].seen.overrides["s1"].complexity

(***************************************************************************)
(* Session bindings of two sessions (SpecBinding)                          *)
(***************************************************************************)
\* two session ids a client can send in metadata.user_id; they differ in a character the
\* file-name sanitization takes out
BindingSessions == {"s1", "s/1"}

\* the repository the bootstrap of a session binds it to in SpecBinding
OwnScope(sid) == IF sid = "s1" THEN Scoped ELSE ScopedBeta

\* the requests of SpecBinding: of each session, a bootstrap that binds the session to its
\* repository and chat requests with no repo context
BindingInputs ==
    {PipelineRequest("completion", None, Unscoped, SessionUser(sid), None, "bare", ShortText) :
         sid \in BindingSessions}
    \cup {PipelineRequest("completion", "repo_bootstrap", OwnScope(sid), SessionUser(sid), None,
                           "bare", ShortText) : sid \in BindingSessions}

NextBinding ==
    \/ \E r \in Slots, in \in BindingInputs : served < MaxSessionRequests /\ PreCall(r, in, 0)
    \/ \E seconds \in SessionSteps : Elapse(seconds)
    \/ Restart

SpecBinding == Init /\ [][NextBinding]_vars

\* C40: a request of session S with no repo context of its own is resolved to no repository
\* or to the one the requests of S have stored, never to the one stored by the requests of
\* another session; the memory entry and the history entry of a session id hold the
\* repository the requests of that session have stored
C40_BindingsIsolatedPerSession ==
    /\ \A r \in Entered :
           (req[r].session_id # None /\ req[r].in.data.metadata.repo = None) =>
               /\ req[r].context.repo \in {None, OwnScope(req[r].session_id).repo}
               /\ req[r].context.repo_root \in {None, OwnScope(req[r].session_id).repo_root}
    /\ \A sid \in DOMAIN _session_repo_cache : _session_repo_cache[sid].repo = OwnScope(sid).repo
    /\ \A sid \in DOMAIN _session_repo_history : _session_repo_history[sid].repo = OwnScope(sid).repo
====
